---- MODULE Spec2Model ----
(***************************************************************************)
(* Model of backend/batch_api_working.py: get_current_batch_location and   *)
(* the helpers it calls (blob discovery, table reads, de-duplication, the  *)
(* join chain, status classification, current-step selection, projection). *)
(*                                                                         *)
(* A DataFrame is a record [typed, cols, rows]: cols is the set of column  *)
(* names, rows the sequence of rows in frame order, each row a function    *)
(* from the column names to cell values.  Numeric cells are integers with  *)
(* NULL for NaN/NaT; text cells are strings with NA for a missing value.   *)
(* typed is FALSE for the frame pd.DataFrame(columns=...) whose columns    *)
(* all have dtype object.  The rows of the run_step frame used for the     *)
(* status carry their pandas index label in the extra entry "index".       *)
(***************************************************************************)
EXTENDS Integers, Sequences, FiniteSets, TLC

\* ------------------------------------------------------------------ values

\* NaN / NaT / pd.NA of a numeric or datetime cell
NULL == 0 - 1
\* a date string pd.to_datetime(errors="coerce") cannot parse, or a
\* time string pd.to_timedelta(errors="coerce") cannot parse
GARBLED == 0 - 2
\* a missing value of a text cell
NA == "<NA>"

\* largest RunId / ProcessModuleId / lookup key of the enumerated snapshots
MaxId == 2
\* largest calendar day of the enumerated snapshots
MaxDay == 2
\* largest ingestion ordinal and Sequence of the enumerated snapshots
MaxOrd == 2
\* largest number of run_step rows in the enumerated snapshots
MaxSteps == 2
\* largest number of blob names in the enumerated listings
MaxBlobs == 3
\* largest number of columns in the enumerated parquet schemas
MaxCols == 3
\* largest number of invocations in a row
MaxCalls == 3
\* largest number of pages of the enumerated listings
MaxPages == 3
\* the last instant of the clock of the cache
MaxNow == 2

Ids == 1..MaxId
Days == 1..MaxDay
Ords == 1..MaxOrd
\* time-of-day values, in hours
Hours == {0, 10}
HoursPerDay == 24

TextCols == {"Label", "Name", "RunName", "Motivation", "MotivationText", "Status",
             "ProcessName", "CategoryName", "ProcessTypeName", "status"}

NullOf(c) == IF c \in TextCols THEN NA ELSE NULL

notna(v) == v # NULL
isna(v) == v = NULL
notnaText(s) == s # NA

\* ------------------------------------------------------------------ frames

EmptyFrame(columns) == [typed |-> FALSE, cols |-> columns, rows |-> <<>>]

Range(s) == {s[i] : i \in DOMAIN s}

\* the subsequence of s at the positions in keep, in order
RECURSIVE TakeFrom(_, _, _)
TakeFrom(s, keep, i) ==
    IF i > Len(s) THEN <<>>
    ELSE (IF i \in keep THEN <<s[i]>> ELSE <<>>) \o TakeFrom(s, keep, i + 1)

Take(s, keep) == TakeFrom(s, keep, 1)

Restrict(row, columns) == [c \in columns |-> row[c]]

\* df[columns]
Select(df, columns) ==
    [typed |-> df.typed, cols |-> columns,
     rows |-> [i \in DOMAIN df.rows |-> Restrict(df.rows[i], columns)]]

\* df.rename(columns={from: to}); a frame without the column is unchanged
Rename(df, from, to) ==
    IF from \notin df.cols THEN df
    ELSE LET newcols == (df.cols \ {from}) \cup {to}
         IN [typed |-> df.typed, cols |-> newcols,
             rows |-> [i \in DOMAIN df.rows |->
                        [c \in newcols |-> IF c = to THEN df.rows[i][from]
                                           ELSE df.rows[i][c]]]]

\* df.drop_duplicates(subset=..., keep="first"): a row is dropped when an
\* earlier row agrees with it on every column of subset (NaN equals NaN)
drop_duplicates(df, subset) ==
    LET same(i, j) == \A c \in subset : df.rows[i][c] = df.rows[j][c]
        keep == {i \in DOMAIN df.rows : \A j \in 1..(i - 1) : ~same(i, j)}
    IN [df EXCEPT !.rows = Take(df.rows, keep)]

\* pd.to_numeric(errors="coerce") of the listed columns that exist: a cell
\* that is no number becomes NaN, and the columns get a numeric dtype
to_numeric(df, columns) ==
    [typed |-> TRUE, cols |-> df.cols,
     rows |-> [i \in DOMAIN df.rows |->
                [c \in DOMAIN df.rows[i] |->
                   IF c \in columns /\ df.rows[i][c] = GARBLED THEN NULL
                   ELSE df.rows[i][c]]]]

\* how="inner" in place of how="left": a left row without a match is dropped
RECURSIVE MergeRowsInner(_, _, _, _, _, _)
MergeRowsInner(lrows, right, lkey, rkey, added, i) ==
    IF i > Len(lrows) THEN <<>>
    ELSE LET l == lrows[i]
             hits == {k \in DOMAIN right.rows : right.rows[k][rkey] = l[lkey]}
             joined == [k \in 1..Len(right.rows) |-> l @@ Restrict(right.rows[k], added)]
         IN Take(joined, hits) \o MergeRowsInner(lrows, right, lkey, rkey, added, i + 1)

\* the rows of left.merge(right, how="left", left_on=lkey, right_on=rkey):
\* left order is kept, a left row is repeated once per matching right row
\* (in right order; pandas matches a NaN key with a NaN key), and a left
\* row without a match is kept once with the right columns missing
RECURSIVE MergeRows(_, _, _, _, _, _)
MergeRows(lrows, right, lkey, rkey, added, i) ==
    IF i > Len(lrows) THEN <<>>
    ELSE LET l == lrows[i]
             hits == {k \in DOMAIN right.rows : right.rows[k][rkey] = l[lkey]}
             miss == l @@ [c \in added |-> NullOf(c)]
             joined == [k \in 1..Len(right.rows) |-> l @@ Restrict(right.rows[k], added)]
         IN (IF hits = {} THEN <<miss>> ELSE Take(joined, hits))
            \o MergeRows(lrows, right, lkey, rkey, added, i + 1)

merge(left, right, lkey, rkey) ==
    LET added == right.cols \ left.cols
    IN [typed |-> TRUE, cols |-> left.cols \cup added,
        rows |-> MergeRows(left.rows, right, lkey, rkey, added, 1)]

\* merge raises KeyError when a key column does not exist
MergeKeyError(left, right, lkey, rkey) == lkey \notin left.cols \/ rkey \notin right.cols

\* pandas checks the dtypes of the two key columns only when both frames or
\* neither frame have rows; two empty key columns of which exactly one is an
\* untyped (object) column pass or raise ValueError depending on the numeric
\* dtype of the other one, which the frames of the model do not record
MergeDtypeHazard(leftRows, leftTyped, right) ==
    leftRows = <<>> /\ right.rows = <<>> /\ leftTyped # right.typed

\* a stable sort: before holds the pairs of positions <<i, j>> whose rows are
\* in strict sort order (a strict weak order), ties keep their order
SortRows(rows, before) ==
    LET n == Len(rows)
        Precedes(i, j) == <<i, j>> \in before \/ (<<j, i>> \notin before /\ i < j)
        pos(i) == 1 + Cardinality({j \in 1..n : Precedes(j, i)})
    IN [p \in 1..n |-> rows[CHOOSE i \in 1..n : pos(i) = p]]

\* ascending comparison of two cells with NaN last (na_position="last")
CellLess(x, y) == notna(x) /\ (isna(y) \/ x < y)

\* the elements of a finite set of integers in ascending order
Ascending(S) ==
    [p \in 1..Cardinality(S) |-> CHOOSE k \in S : Cardinality({x \in S : x < k}) = p - 1]

\* the concatenation of a sequence of sequences
RECURSIVE Concat(_)
Concat(ss) == IF ss = <<>> THEN <<>> ELSE Head(ss) \o Concat(Tail(ss))

\* ------------------------------------------------------------------ blob locator

NEEDED == {"run", "run_step", "process_module", "process", "process_category",
           "process_type_category", "process_type"}

\* sorted(NEEDED)
SortedNeeded == <<"process", "process_category", "process_module", "process_type",
                  "process_type_category", "run", "run_step">>

\* len(CANDIDATES[table])
NumCandidates(table) == IF table \in {"run", "run_step"} THEN 4 ELSE 3

\* A blob path, as far as the locator tells paths apart: the table whose
\* "<table>.parquet" the path ends with ("" for none), and its form: "leaf"
\* (the path is "<table>.parquet"), "dir" (it ends with "/<table>.parquet"),
\* "suffix" (it only ends with "<table>.parquet"), "cand" (CANDIDATES[table][pos]);
\* "LEAF", "DIR" and "SUFFIX" are such paths with capital letters in them.
\* pos tells two paths of the same table and form apart.
Blob(table, form, pos) == [tbl |-> table, form |-> form, pos |-> pos]
None == Blob("", "none", 0)

\* b.lower()
Lower(b) ==
    [b EXCEPT !.form = CASE @ = "LEAF" -> "leaf" [] @ = "DIR" -> "dir"
                         [] @ = "SUFFIX" -> "suffix" [] OTHER -> @]

\* The container listing is the sequence of its pages.  Page k answers the
\* LIST request that carries the marker of page k - 1 (none for page 1): ok
\* is FALSE for an answer other than HTTP 200, raises is TRUE when the
\* request or the parse of its answer raises, next is TRUE when the page
\* holds a NextMarker, names are the blob names of the page.
Page(ok, raises, next, names) == [ok |-> ok, raises |-> raises, next |-> next, names |-> names]

\* an HTTP request of the invocation: LIST with the marker of page pos (0 for
\* none), HEAD or RANGE (the GET of bytes 0-0) of candidate pos of a table,
\* GET of the blob selected for a table
Request(verb, table, pos) == [verb |-> verb, tbl |-> table, pos |-> pos]

\* azure_list_blobs from the page after marker position k
RECURSIVE ListFrom(_, _)
ListFrom(service, k) ==
    IF k > Len(service) THEN <<>>
    ELSE IF ~service[k].ok \/ service[k].raises THEN <<>>
    ELSE service[k].names \o (IF service[k].next THEN ListFrom(service, k + 1) ELSE <<>>)

\* the names of the first page only
azure_list_first_page(service) ==
    IF service = <<>> THEN <<>>
    ELSE IF ~service[1].ok \/ service[1].raises THEN <<>>
    ELSE service[1].names

azure_list_blobs(service) == ListFrom(service, 1)

\* the LIST requests azure_list_blobs issues from page k on
RECURSIVE ListRequestsFrom(_, _)
ListRequestsFrom(service, k) ==
    IF k > Len(service) THEN <<>>
    ELSE <<Request("LIST", "", k - 1)>>
         \o (IF service[k].ok /\ ~service[k].raises /\ service[k].next
             THEN ListRequestsFrom(service, k + 1) ELSE <<>>)

\* a LIST request of azure_list_blobs raises (requests.get or ET.fromstring)
RECURSIVE ListRaisesFrom(_, _)
ListRaisesFrom(service, k) ==
    IF k > Len(service) THEN FALSE
    ELSE IF service[k].raises THEN TRUE
    ELSE IF service[k].ok /\ service[k].next THEN ListRaisesFrom(service, k + 1)
    ELSE FALSE
ListRaises(service) == ListRaisesFrom(service, 1)

\* the first path that ends with the leaf, exact or not
pick_first_suffix(all_blobs, table) ==
    LET anymatch == {i \in DOMAIN all_blobs :
                       all_blobs[i].tbl = table
                       /\ Lower(all_blobs[i]).form \in {"leaf", "dir", "suffix"}}
        first(S) == CHOOSE i \in S : \A j \in S : i <= j
    IN IF anymatch # {} THEN all_blobs[first(anymatch)] ELSE None

pick_blob_from_list(all_blobs, table) ==
    LET exact == {i \in DOMAIN all_blobs :
                    all_blobs[i].tbl = table /\ Lower(all_blobs[i]).form \in {"leaf", "dir"}}
        anymatch == {i \in DOMAIN all_blobs :
                       all_blobs[i].tbl = table
                       /\ Lower(all_blobs[i]).form \in {"leaf", "dir", "suffix"}}
        first(S) == CHOOSE i \in S : \A j \in S : i <= j
    IN IF exact # {} THEN all_blobs[first(exact)]
       ELSE IF anymatch # {} THEN all_blobs[first(anymatch)]
       ELSE None

\* the first candidate, not probed
guess_blob_unprobed(table, head, rget) == Blob(table, "cand", 1)

\* head and rget: the candidates whose HEAD / ranged GET answers 200 or 206
guess_blob_for_table(table, head, rget) ==
    LET ok == {p \in 1..NumCandidates(table) : <<table, p>> \in head \cup rget}
    IN IF ok = {} THEN None
       ELSE Blob(table, "cand", CHOOSE p \in ok : \A q \in ok : p <= q)

\* the probes guess_blob_for_table issues from candidate p on
RECURSIVE ProbesFrom(_, _, _, _)
ProbesFrom(table, head, rget, p) ==
    IF p > NumCandidates(table) THEN <<>>
    ELSE IF <<table, p>> \in head THEN <<Request("HEAD", table, p)>>
    ELSE <<Request("HEAD", table, p), Request("RANGE", table, p)>>
         \o (IF <<table, p>> \in rget THEN <<>> ELSE ProbesFrom(table, head, rget, p + 1))

\* STEP 1 for one table
Locate(blobs, table, head, rget) ==
    LET blob == IF blobs # <<>> THEN pick_blob_from_list(blobs, table) ELSE None
    IN IF blob # None THEN blob ELSE guess_blob_for_table(table, head, rget)

\* the probes of STEP 1 for one table: none when the listing names it
LocateRequests(blobs, table, head, rget) ==
    IF blobs # <<>> /\ pick_blob_from_list(blobs, table) # None THEN <<>>
    ELSE ProbesFrom(table, head, rget, 1)

\* the requests of STEP 1 when it stops after table number last of sorted(NEEDED)
DiscoverRequests(service, head, rget, last) ==
    LET blobs == azure_list_blobs(service)
    IN ListRequestsFrom(service, 1)
       \o Concat([k \in 1..last |-> LocateRequests(blobs, SortedNeeded[k], head, rget)])

\* the downloads of STEP 2, one per read_parquet_subset call (lines 206-235)
LoadRequests ==
    <<Request("GET", "run", 0), Request("GET", "run_step", 0), Request("GET", "process", 0),
      Request("GET", "process_category", 0), Request("GET", "process_type_category", 0),
      Request("GET", "process_type", 0), Request("GET", "process_module", 0)>>
\* the downloads of STEP 3: rs_basic and rs (lines 274, 278)
StatusRequests == <<Request("GET", "run_step", 0), Request("GET", "run_step", 0)>>

\* ------------------------------------------------------------------ table reader

\* A snapshot file: ok is FALSE when its download or its parse fails, cols
\* are the columns of its schema, rows its rows (functions on cols)
\* read_parquet_subset for a schema without duplicate names
read_parquet_subset(file, columns) ==
    IF ~file.ok THEN EmptyFrame(columns)
    ELSE LET available_cols == columns \cap file.cols
         IN IF available_cols = {} THEN EmptyFrame(columns)
            ELSE Select([typed |-> TRUE, cols |-> file.cols, rows |-> file.rows],
                        available_cols)

\* --- the reader with the order and the multiplicity of the columns.  A
\* parquet blob is [status, schema, rows]: status is "ok", "http" (the GET
\* answers another status than 200), "transport" (requests.get raises) or
\* "corrupt" (pq.ParquetFile raises); schema is the sequence of the column
\* names, rows the sequence of the rows, each the sequence of its cells in
\* schema order.  A table is [columns, rows] in the same layout.

Positions(s, keep) == Take([i \in DOMAIN s |-> i], keep)
\* the columns of a table at the positions idx, in that order
Columns(schema, rows, idx) ==
    [columns |-> [k \in DOMAIN idx |-> schema[idx[k]]],
     rows |-> [r \in DOMAIN rows |-> [k \in DOMAIN idx |-> rows[r][idx[k]]]]]

\* a failure that returned pd.DataFrame() would lose the requested columns
TableWithoutColumns(columns) == [columns |-> <<>>, rows |-> <<>>]
\* pd.DataFrame(columns=columns)
EmptyTable(columns) == [columns |-> columns, rows |-> <<>>]

\* the BytesIO of the blob, None for an answer other than 200 (lines 108-115)
download_blob_to_memory(blob) == IF blob.status = "http" THEN None ELSE blob

\* lines 140-145: the first position of every distinct name
unique_indices(col_names) ==
    Positions(col_names, {i \in DOMAIN col_names :
                            \A j \in 1..(i - 1) : col_names[j] # col_names[i]})

\* [c for c in columns if c in present]
available_cols(columns, present) ==
    Take(columns, {k \in DOMAIN columns : columns[k] \in Range(present)})

\* parquet_file.read(columns=names): pyarrow selects the columns by name,
\* every column of the schema that bears one of the names
ParquetRead(blob, names) ==
    Columns(blob.schema, blob.rows,
            Positions(blob.schema, {i \in DOMAIN blob.schema : blob.schema[i] \in Range(names)}))

\* df[names]: for each name in turn, every column of df that bears it
RECURSIVE SelectPositions(_, _, _)
SelectPositions(columns, names, k) ==
    IF k > Len(names) THEN <<>>
    ELSE Positions(columns, {i \in DOMAIN columns : columns[i] = names[k]})
         \o SelectPositions(columns, names, k + 1)
SelectColumns(df, names) == Columns(df.columns, df.rows, SelectPositions(df.columns, names, 1))

\* lines 130-172 for a blob that was downloaded and parses
ParseSubset(blob, columns) ==
    LET col_names == blob.schema
        table == IF Len(col_names) # Cardinality(Range(col_names))
                 THEN ParquetRead(blob, [k \in DOMAIN unique_indices(col_names) |->
                                            col_names[unique_indices(col_names)[k]]])
                 ELSE IF available_cols(columns, col_names) # <<>>
                 THEN ParquetRead(blob, available_cols(columns, col_names))
                 ELSE Columns(blob.schema, blob.rows, [i \in DOMAIN blob.schema |-> i])
    IN IF columns = <<>> THEN table
       ELSE IF available_cols(columns, table.columns) # <<>>
       THEN SelectColumns(table, available_cols(columns, table.columns))
       ELSE EmptyTable(columns)

\* the blob cannot be read: no answer 200, or an exception inside the try
ReadFailure(blob) == download_blob_to_memory(blob) = None \/ blob.status \in {"transport", "corrupt"}

\* read_parquet_subset with ordered columns (lines 120-178)
read_parquet_ordered(blob, columns) ==
    IF ReadFailure(blob) THEN EmptyTable(columns) ELSE ParseSubset(blob, columns)

\* ------------------------------------------------------------------ STEP 2: load

AllCols(df) == df.cols

run_raw(files) ==
    Rename(read_parquet_subset(files["run"],
             {"Id", "Label", "Name", "Motivation", "Status", "RunTypeId"}), "Id", "RunId")
run_df(files) == drop_duplicates(run_raw(files), {"RunId"})

run_step_df(files) ==
    LET df == read_parquet_subset(files["run_step"], {"RunId", "ProcessModuleId"})
    IN drop_duplicates(df, AllCols(df))

process_raw(files) ==
    Rename(Rename(read_parquet_subset(files["process"], {"Id", "Name", "CategoryId"}),
                  "Id", "ProcessId"), "Name", "ProcessName")
process_tbl(files) == drop_duplicates(process_raw(files), {"ProcessId"})

process_category_raw(files) ==
    Rename(Rename(read_parquet_subset(files["process_category"], {"Id", "Name"}),
                  "Id", "CategoryId"), "Name", "CategoryName")
process_category(files) == drop_duplicates(process_category_raw(files), {"CategoryId"})

process_type_category(files) ==
    LET df == read_parquet_subset(files["process_type_category"], {"TypeId", "CategoryId"})
    IN drop_duplicates(df, AllCols(df))

process_type_raw(files) ==
    Rename(Rename(read_parquet_subset(files["process_type"], {"Id", "Name"}),
                  "Id", "ProcessTypeId"), "Name", "ProcessTypeName")
process_type(files) == drop_duplicates(process_type_raw(files), {"ProcessTypeId"})

pm_raw(files) ==
    to_numeric(read_parquet_subset(files["process_module"], {"Id", "ProcessId", "ModuleId"}),
               {"Id", "ProcessId", "ModuleId"})

\* pm_raw["ProcessId"].notna().astype(int)
Score(row) == IF notna(row["ProcessId"]) THEN 1 ELSE 0

\* ascending=[True, True]: the rows without a ProcessId come first
PmBeforeAscendingScore(a, b) ==
    \/ CellLess(a["Id"], b["Id"])
    \/ (a["Id"] = b["Id"] /\ Score(a) < Score(b))

\* sort_values(["Id", "_score"], ascending=[True, False], kind="stable")
PmBefore(a, b) ==
    \/ CellLess(a["Id"], b["Id"])
    \/ (a["Id"] = b["Id"] /\ Score(a) > Score(b))

\* one representative row per Id, a row with a ProcessId preferred
pm_by_module(files) ==
    LET raw == pm_raw(files)
        before == {p \in (DOMAIN raw.rows) \X (DOMAIN raw.rows) :
                      PmBefore(raw.rows[p[1]], raw.rows[p[2]])}
    IN drop_duplicates([raw EXCEPT !.rows = SortRows(raw.rows, before)], {"Id"})

\* the lookup frames of one invocation
Lookups(files) ==
    [pm |-> pm_by_module(files), process |-> process_tbl(files),
     category |-> process_category(files), ptc |-> process_type_category(files),
     ptype |-> process_type(files), run |-> run_df(files)]

\* the five hops step -> process_module -> process -> process_category ->
\* process_type_category -> process_type, as the frames after each hop
NameChain(base, t) ==
    LET h1 == merge(base, t.pm, "ProcessModuleId", "Id")
        h2 == merge(h1, t.process, "ProcessId", "ProcessId")
        h3 == merge(h2, t.category, "CategoryId", "CategoryId")
        h4 == merge(h3, t.ptc, "CategoryId", "CategoryId")
        h5 == merge(h4, t.ptype, "TypeId", "ProcessTypeId")
    IN <<h1, h2, h3, h4, h5>>

\* a key column of one of the five hops does not exist
NameChainKeyError(base, t) ==
    \/ MergeKeyError(base, t.pm, "ProcessModuleId", "Id")
    \/ "ProcessId" \notin t.pm.cols \/ "ProcessId" \notin t.process.cols
    \/ "CategoryId" \notin t.process.cols \/ "CategoryId" \notin t.category.cols
    \/ "CategoryId" \notin t.ptc.cols
    \/ "TypeId" \notin t.ptc.cols \/ "ProcessTypeId" \notin t.ptype.cols

\* a hop of the chain joins two empty frames with one untyped key column
NameChainHazard(base, baseTyped, t) ==
    \/ MergeDtypeHazard(base.rows, baseTyped, t.pm)
    \/ MergeDtypeHazard(base.rows, t.pm.typed, t.process)
    \/ MergeDtypeHazard(base.rows, t.process.typed, t.category)
    \/ MergeDtypeHazard(base.rows, t.process.typed, t.ptc)
    \/ MergeDtypeHazard(base.rows, t.ptc.typed, t.ptype)

\* j1 .. j6
JoinAll(files) ==
    LET t == Lookups(files)
        j == NameChain(run_step_df(files), t)
    IN j \o <<merge(j[5], t.run, "RunId", "RunId")>>

\* STEP 2 raises KeyError
LoadKeyError(files) ==
    \/ "RunId" \notin run_raw(files).cols
    \/ "ProcessId" \notin process_raw(files).cols
    \/ "CategoryId" \notin process_category_raw(files).cols
    \/ "ProcessTypeId" \notin process_type_raw(files).cols
    \/ "ProcessId" \notin pm_raw(files).cols
    \/ "Id" \notin pm_raw(files).cols
    \/ NameChainKeyError(run_step_df(files), Lookups(files))
    \/ "RunId" \notin run_step_df(files).cols

\* STEP 2 may raise ValueError
LoadHazard(files) ==
    \/ NameChainHazard(run_step_df(files), run_step_df(files).typed, Lookups(files))
    \/ MergeDtypeHazard(run_step_df(files).rows, run_step_df(files).typed, run_df(files))

\* a key column read from a file is a text column: a cell that is no number
\* can only be stored in one
TextKey(df, col) == col \in df.cols /\ \E i \in DOMAIN df.rows : df.rows[i][col] = GARBLED

\* STEP 2 raises ValueError: merge refuses to join a text key column with a
\* numeric one when both frames have rows.  run_step is joined on its keys
\* as read (lines 210-211 do not coerce them): ProcessModuleId with the
\* coerced Id of process_module (j1), RunId with the Id of run (j6)
LoadTypeError(files) ==
    LET steps == run_step_df(files)
    IN /\ steps.rows # <<>>
       /\ \/ TextKey(steps, "ProcessModuleId") /\ pm_by_module(files).rows # <<>>
          \/ /\ TextKey(steps, "RunId") /\ run_df(files).rows # <<>>
             /\ ~TextKey(run_df(files), "RunId")

\* ------------------------------------------------------------------ STEP 3: status

rs_cols_desired == {"RunId", "ProcessModuleId", "Sequence", "StartDate", "StartTime",
                    "FinishDate", "FinishTime", "__batch_index", "__fragment_index"}

\* the cell of a row in a column, missing when the frame has no such column
\* (_coalesce_by_name for a frame without duplicate column names)
_coalesce_by_name(row, name) == IF name \in DOMAIN row THEN row[name] ELSE NULL

\* pd.to_datetime(errors="coerce") of a date cell, in days
ToDatetime(date_like) == IF date_like \in {NULL, GARBLED} THEN NULL ELSE date_like

\* pd.to_timedelta(errors="coerce") of a time cell whose missing value was
\* filled with "00:00:00", in hours
ToTimedelta(time_like) ==
    IF time_like = NULL THEN 0 ELSE IF time_like = GARBLED THEN NULL ELSE time_like

\* d + t, NaT when either is NaT; an instant is counted in hours
_combine_dt(date_like, time_like) ==
    LET d == ToDatetime(date_like)
        t == ToTimedelta(time_like)
    IN IF isna(d) \/ isna(t) THEN NULL ELSE d * HoursPerDay + t

\* line 300 without its test of finished_at
StatusOfStartWins(started_at, finished_at) ==
    LET s0 == NA
        s1 == IF notna(finished_at) THEN "Completed" ELSE s0
        s2 == IF notna(started_at) THEN "In Progress" ELSE s1
        s3 == IF isna(started_at) /\ isna(finished_at) THEN "Not Started" ELSE s2
    IN s3

\* lines 298-301: three assignments in sequence
StatusOf(started_at, finished_at) ==
    LET s0 == NA
        s1 == IF notna(finished_at) THEN "Completed" ELSE s0
        s2 == IF notna(started_at) /\ isna(finished_at) THEN "In Progress" ELSE s1
        s3 == IF isna(started_at) /\ isna(finished_at) THEN "Not Started" ELSE s2
    IN s3

\* finish-first in place of the later of the two
UpdatedAtFinishFirst(started_at, finished_at) ==
    IF notna(finished_at) THEN finished_at ELSE started_at

\* rs[["finished_at", "started_at"]].max(axis=1), NaT skipped
UpdatedAt(started_at, finished_at) ==
    IF isna(finished_at) THEN started_at
    ELSE IF isna(started_at) THEN finished_at
    ELSE IF finished_at >= started_at THEN finished_at ELSE started_at

\* lines 290-296: the two instants of a row
StartedAt(row) ==
    IF "StartDate" \in DOMAIN row /\ "FinishDate" \in DOMAIN row
    THEN _combine_dt(_coalesce_by_name(row, "StartDate"), _coalesce_by_name(row, "StartTime"))
    ELSE NULL

FinishedAt(row) ==
    IF "StartDate" \in DOMAIN row /\ "FinishDate" \in DOMAIN row
    THEN _combine_dt(_coalesce_by_name(row, "FinishDate"), _coalesce_by_name(row, "FinishTime"))
    ELSE NULL

DerivedCols == {"started_at", "finished_at", "status", "updated_at"}

\* lines 278-302: the run_step frame with its derived columns; "index" is
\* the index label of the row, its position in the snapshot
rs_df(files) ==
    LET df == to_numeric(read_parquet_subset(files["run_step"], rs_cols_desired),
                         {"RunId", "ProcessModuleId", "Sequence",
                          "__batch_index", "__fragment_index"})
        ext(i) == LET row == df.rows[i]
                      st == StartedAt(row)
                      fi == FinishedAt(row)
                  IN row @@ [c \in DerivedCols \cup {"index"} |->
                               CASE c = "started_at" -> st
                                 [] c = "finished_at" -> fi
                                 [] c = "status" -> StatusOf(st, fi)
                                 [] c = "updated_at" -> UpdatedAt(st, fi)
                                 [] c = "index" -> i]
    IN [typed |-> TRUE, cols |-> df.cols \cup DerivedCols,
        rows |-> [i \in DOMAIN df.rows |-> ext(i)]]

\* ------------------------------------------------------------------ STEP 3: current step

\* idxmin in place of idxmax
IdxMin(g, col) ==
    CHOOSE i \in DOMAIN g :
        /\ notna(g[i][col])
        /\ \A j \in DOMAIN g : notna(g[j][col]) => g[j][col] >= g[i][col]
        /\ \A j \in 1..(i - 1) : g[j][col] # g[i][col]

\* the last row that holds the largest value of the column
IdxMaxLast(g, col) ==
    CHOOSE i \in DOMAIN g :
        /\ notna(g[i][col])
        /\ \A j \in DOMAIN g : notna(g[j][col]) => g[j][col] <= g[i][col]
        /\ \A j \in (i + 1)..Len(g) : g[j][col] # g[i][col]

\* g[col].idxmax(): the first row that holds the largest value of the column
IdxMax(g, col) ==
    CHOOSE i \in DOMAIN g :
        /\ notna(g[i][col])
        /\ \A j \in DOMAIN g : notna(g[j][col]) => g[j][col] <= g[i][col]
        /\ \A j \in 1..(i - 1) : g[j][col] # g[i][col]

\* sort_values(sk, kind="stable") on the ordinal columns that exist
OrdinalBefore(a, b) ==
    LET hasB == "__batch_index" \in DOMAIN a
        hasF == "__fragment_index" \in DOMAIN a
        lessB == CellLess(a["__batch_index"], b["__batch_index"])
        eqB == a["__batch_index"] = b["__batch_index"]
        lessF == CellLess(a["__fragment_index"], b["__fragment_index"])
    IN IF hasB /\ hasF THEN lessB \/ (eqB /\ lessF)
       ELSE IF hasB THEN lessB
       ELSE lessF

\* the ladder without its Sequence rule
_pick_current_without_sequence(g) ==
    IF \E i \in DOMAIN g : notna(g[i]["updated_at"])
    THEN g[IdxMax(g, "updated_at")]
    ELSE IF "__batch_index" \in DOMAIN g[1] \/ "__fragment_index" \in DOMAIN g[1]
    THEN SortRows(g, {p \in (DOMAIN g) \X (DOMAIN g) : OrdinalBefore(g[p[1]], g[p[2]])})[Len(g)]
    ELSE g[Len(g)]

\* the ladder with the first row as its last resort
_pick_current_first_row(g) ==
    IF \E i \in DOMAIN g : notna(g[i]["updated_at"])
    THEN g[IdxMax(g, "updated_at")]
    ELSE IF "__batch_index" \in DOMAIN g[1] \/ "__fragment_index" \in DOMAIN g[1]
    THEN SortRows(g, {p \in (DOMAIN g) \X (DOMAIN g) : OrdinalBefore(g[p[1]], g[p[2]])})[Len(g)]
    ELSE IF "Sequence" \in DOMAIN g[1] /\ \E i \in DOMAIN g : notna(g[i]["Sequence"])
    THEN g[IdxMax(g, "Sequence")]
    ELSE g[1]

\* the ladder with an ordinal rule that asks for an ordinal value, not for
\* an ordinal column
_pick_current_by_ordinal_values(g) ==
    IF \E i \in DOMAIN g : notna(g[i]["updated_at"])
    THEN g[IdxMax(g, "updated_at")]
    ELSE IF \E i \in DOMAIN g : \E c \in {"__batch_index", "__fragment_index"} \cap DOMAIN g[i] :
                notna(g[i][c])
    THEN SortRows(g, {p \in (DOMAIN g) \X (DOMAIN g) : OrdinalBefore(g[p[1]], g[p[2]])})[Len(g)]
    ELSE IF "Sequence" \in DOMAIN g[1] /\ \E i \in DOMAIN g : notna(g[i]["Sequence"])
    THEN g[IdxMax(g, "Sequence")]
    ELSE g[Len(g)]

\* the row of the group g (the rows of one run, in frame order) that is its
\* current step
_pick_current(g) ==
    IF \E i \in DOMAIN g : notna(g[i]["updated_at"])
    THEN g[IdxMax(g, "updated_at")]
    ELSE IF "__batch_index" \in DOMAIN g[1] \/ "__fragment_index" \in DOMAIN g[1]
    THEN SortRows(g, {p \in (DOMAIN g) \X (DOMAIN g) : OrdinalBefore(g[p[1]], g[p[2]])})[Len(g)]
    ELSE IF "Sequence" \in DOMAIN g[1] /\ \E i \in DOMAIN g : notna(g[i]["Sequence"])
    THEN g[IdxMax(g, "Sequence")]
    ELSE g[Len(g)]

\* the rows of one group of rs.groupby("RunId"), in frame order
GroupRows(rs, key) == Take(rs.rows, {i \in DOMAIN rs.rows : rs.rows[i]["RunId"] = key})

\* groupby(dropna=False): the rows with a NaN key form a group too
GroupKeysKeepNaN(rs) == {rs.rows[i]["RunId"] : i \in DOMAIN rs.rows}

\* the group keys of rs.groupby("RunId"): rows with a NaN key are in no group
GroupKeys(rs) == {rs.rows[i]["RunId"] : i \in DOMAIN rs.rows} \ {NULL}

\* rs.groupby("RunId").apply(_pick_current).reset_index(drop=True); the
\* rows keep "index", the label they had in rs
current_step_df(rs) ==
    LET keys == Ascending(GroupKeys(rs))
    IN [typed |-> TRUE, cols |-> rs.cols,
        rows |-> [k \in DOMAIN keys |-> _pick_current(GroupRows(rs, keys[k]))]]

\* ------------------------------------------------------------------ STEP 3: names

RunNameCols == {"RunId", "Label", "Name", "Motivation", "Status"}
PmCols == {"Id", "ProcessId", "ModuleId"}

\* the text without its HTML tags; a missing value stays missing
strip_html(s) ==
    IF s = NA THEN s
    ELSE IF s = "<p>scale-up</p>" THEN "scale-up"
    ELSE s

\* lines 325-329
run_names(run) ==
    Rename(drop_duplicates(Select(run, RunNameCols), {"RunId"}), "Name", "RunName")

\* the lookup frames as the second join pass uses them
ResolveLookups(t) == [t EXCEPT !.pm = Select(t.pm, PmCols)]

\* the join with run_names as an inner join
ResolveAllInnerRun(current_step, t) ==
    LET c == NameChain(current_step, ResolveLookups(t))
        names == run_names(t.run)
    IN c \o <<[typed |-> TRUE, cols |-> c[5].cols \cup names.cols,
               rows |-> MergeRowsInner(c[5].rows, names, "RunId", "RunId",
                                       names.cols \ c[5].cols, 1)]>>

\* c1 .. c5 and c5 joined with run_names (lines 318-330)
ResolveAll(current_step, t) ==
    LET c == NameChain(current_step, ResolveLookups(t))
    IN c \o <<merge(c[5], run_names(t.run), "RunId", "RunId")>>

ResolveKeyError(current_step, t) ==
    \/ ~(PmCols \subseteq t.pm.cols)
    \/ NameChainKeyError(current_step, t)
    \/ ~(RunNameCols \subseteq t.run.cols)
    \/ "RunId" \notin current_step.cols

ResolveHazard(current_step, t) ==
    \/ NameChainHazard(current_step, TRUE, t)
    \/ MergeDtypeHazard(current_step.rows, TRUE, t.run)

KeepCols == {"RunId", "Label", "RunName", "Motivation", "MotivationText", "Status",
             "ProcessModuleId", "Id_pm", "ModuleId",
             "ProcessId", "ProcessName", "CategoryId", "CategoryName",
             "TypeId", "ProcessTypeId", "ProcessTypeName",
             "status", "Sequence", "started_at", "finished_at", "updated_at"}

\* ascending=True
RunIdAscending(a, b) == a["RunId"] < b["RunId"]

\* sort_values(["RunId"], kind="stable", ascending=False)
RunIdDescending(a, b) == a["RunId"] > b["RunId"]

\* lines 333-347: c5 with MotivationText, restricted to keep_cols and sorted;
\* the rows keep "index", the label of their step in rs
current_location_df(c5) ==
    LET cols == (c5.cols \cup {"MotivationText"}) \cap KeepCols
        withText(row) == row @@ [c \in {"MotivationText"} |-> strip_html(row["Motivation"])]
        rows == [i \in DOMAIN c5.rows |-> Restrict(withText(c5.rows[i]), cols \cup {"index"})]
        before == {p \in (DOMAIN rows) \X (DOMAIN rows) : RunIdDescending(rows[p[1]], rows[p[2]])}
    IN [typed |-> TRUE, cols |-> cols, rows |-> SortRows(rows, before)]

\* ------------------------------------------------------------------ projection

\* str() of a Timestamp
DayText == <<"2024-01-01", "2024-01-02", "2024-01-03", "2024-01-04">>
TimestampStr(instant) ==
    <<DayText[instant \div HoursPerDay],
      IF instant % HoursPerDay = 0 THEN "00:00:00" ELSE "10:00:00">>

\* str(x) if pd.notna(x) else default, for a text cell
TextOr(x, default) == IF notnaText(x) THEN x ELSE default

\* lines 354-366; a timestamp field is the sequence of the parts of its
\* text (date, time of day), the empty sequence for the empty string
Batch(row) ==
    [batch_id |-> IF notna(row["RunId"]) THEN row["RunId"] ELSE 0,
     batch_number |-> TextOr(row["Label"], ""),
     batch_name |-> TextOr(row["RunName"], "Unknown"),
     batch_status |-> TextOr(row["Status"], ""),
     motivation |-> TextOr(row["MotivationText"], ""),
     process_name |-> TextOr(row["ProcessName"], ""),
     category_name |-> TextOr(row["CategoryName"], ""),
     process_type_name |-> TextOr(row["ProcessTypeName"], ""),
     process_status |-> TextOr(row["status"], "Unknown"),
     started_at |-> IF notna(row["started_at"]) THEN TimestampStr(row["started_at"]) ELSE <<>>,
     finished_at |-> IF notna(row["finished_at"]) THEN TimestampStr(row["finished_at"]) ELSE <<>>]

Batches(current_location) ==
    [i \in DOMAIN current_location.rows |-> Batch(current_location.rows[i])]

\* the payloads
Success(batches) ==
    [success |-> TRUE, http |-> 200, data |-> batches, count |-> Len(batches), error |-> <<>>]
\* the failure payload returned without the status 500
FailureWithoutStatus(error) ==
    [success |-> FALSE, http |-> 200, data |-> <<>>, count |-> 0, error |-> error]
Failure(error) ==
    [success |-> FALSE, http |-> 500, data |-> <<>>, count |-> 0, error |-> error]
NoResult == [success |-> FALSE, http |-> 0, data |-> <<>>, count |-> 0, error |-> <<>>]

\* ------------------------------------------------------------------ state

VARIABLES
    pc,               \* position in get_current_batch_location
    service,          \* the pages the LIST requests of this invocation return
    head, rget,       \* the candidates whose HEAD / ranged GET succeeds
    files,            \* the snapshot file behind the blob selected for each table
    selected,         \* STEP 1: table -> blob
    tabs,             \* STEP 2: the de-duplicated lookup frames
    joined,           \* STEP 2: j1 .. j6
    rs,               \* STEP 3: run_step with status and updated_at
    current_step,     \* STEP 3: one row per run
    resolved,         \* STEP 3: c1 .. c5, and c5 joined with run_names
    current_location, \* STEP 3: the sorted frame the records are made from
    result,           \* the payload returned
    floatKeys,        \* the numeric key columns of this snapshot's empty frames
                      \* are float64, which merge refuses to pair with an
                      \* empty object column
    requests,         \* history: the HTTP requests of this invocation, in order
    calls,            \* history: the invocations entered so far
    previous,         \* history: the input, the outcome and the requests of each
                      \* invocation that returned before this one
    parquet, wanted,  \* the arguments of a call of read_parquet_subset on its own
    returned,         \* the table that call returns
    connected,        \* cache manager: cache_collection is not None
    store,            \* the documents of the graph_cache collection, in natural order
    now,              \* datetime.utcnow()
    pending,          \* caller -> the document its upsert is about to insert
    got,              \* the get that returned last, when no other call came after it
    expect            \* key -> what the last set that returned True stored, until
                      \* an invalidate of the key returns

vars == <<pc, service, head, rget, files, selected, tabs, joined, rs, current_step,
          resolved, current_location, result, floatKeys, requests, calls, previous,
          parquet, wanted, returned, connected, store, now, pending, got, expect>>

inputs == <<service, head, rget, files, floatKeys>>
history == <<calls, previous>>
reader == <<parquet, wanted, returned>>
cache == <<connected, store, now, pending, got, expect>>
\* the value of returned before the call returns
NotReturned == [columns |-> <<>>, rows |-> <<>>]

NoFrame == EmptyFrame({})

\* what an invocation computed: the payload, the representatives of
\* process_module and the current step of each run
Outcome == [result |-> result, pm |-> tabs.pm, current_step |-> current_step]
CurrentInput ==
    [service |-> service, head |-> head, rget |-> rget, files |-> files, floatKeys |-> floatKeys]

\* an invocation that kept the tables of the invocation before it
TablesKept == IF previous = <<>> THEN files ELSE previous[Len(previous)].input.files
\* the contents of the seven tables as this invocation downloads them (lines
\* 108-115, called from lines 206-215 and 273): the files behind the blobs
TablesRead == files

\* the state in which get_current_batch_location is entered with the input in
\* the inputs of an invocation and its locals before the first statement
Arrive(in) ==
    /\ service = in.service /\ head = in.head /\ rget = in.rget /\ files = in.files
    /\ floatKeys = in.floatKeys
    /\ requests = <<>>
    /\ calls = 1
    /\ previous = <<>>
    /\ selected = [t \in NEEDED |-> None]
    /\ tabs = [pm |-> NoFrame, process |-> NoFrame, category |-> NoFrame,
               ptc |-> NoFrame, ptype |-> NoFrame, run |-> NoFrame]
    /\ joined = <<>>
    /\ rs = NoFrame
    /\ current_step = NoFrame
    /\ resolved = <<>>
    /\ current_location = NoFrame
    /\ result = NoResult

\* --- the cache manager (cache_manager.py)

\* the keys of set and get.  invalidate is also called with NoKey, the
\* argument None, and with "", the string that is falsy in Python
CacheKeys == {"chart_PCE", "device_yield"}
\* the key the callers of the enumerated runs set
SetKeys == {"chart_PCE"}
NoKey == "None"
\* the data a caller hands to set: two JSON values (the docstring of set,
\* line 97), which update_one stores and find_one returns as they are, and
\* a value the BSON encoder refuses (a numpy number, a key that is no string)
CacheData == {"rows_a", "rows_b"}
Unencodable == "numpy"
\* find_one found no document
NoData == "None"
\* self.cache_ttl, in ticks of the clock
cache_ttl == 2
\* the ttl arguments: 0 is None or timedelta(0), both falsy
Ttls == {0, 1}
Callers == {"web", "scheduler"}

Document(key, data, expires_at) == [key |-> key, data |-> data, expires_at |-> expires_at]
NoDocument == Document(NoKey, NoData, 0)
NoGet == [key |-> NoKey, value |-> NoData]
\* the positions of the documents a filter on the key matches
Matching(key) == {i \in DOMAIN store : store[i].key = key}
\* the filter of get (lines 75-78): the key and an expiry after now
Live(key) == {i \in Matching(key) : store[i].expires_at > now}

CacheIdle ==
    /\ connected = FALSE
    /\ store = <<>>
    /\ now = 0
    /\ pending = [c \in Callers |-> NoDocument]
    /\ got = NoGet
    /\ expect = [k \in CacheKeys |-> NoDocument]

Enter(in) ==
    /\ pc = "start"
    /\ parquet = None /\ wanted = <<>> /\ returned = NotReturned
    /\ CacheIdle
    /\ Arrive(in)

\* ------------------------------------------------------------------ actions

\* lines 191-201, every table located
Discover ==
    /\ pc = "start"
    /\ LET blobs == azure_list_blobs(service)
           sel == [t \in NEEDED |-> Locate(blobs, t, head, rget)]
       IN /\ \A t \in NEEDED : sel[t] # None
          /\ selected' = sel
    /\ ~ListRaises(service)
    /\ requests' = requests \o DiscoverRequests(service, head, rget, Len(SortedNeeded))
    /\ pc' = "load"
    /\ UNCHANGED <<inputs, history, reader, cache, tabs, joined, rs, current_step, resolved, current_location,
                   result>>

\* lines 191-201, the first table of sorted(NEEDED) that is not located
Missing ==
    /\ pc = "start"
    /\ LET blobs == azure_list_blobs(service)
           sel == [t \in NEEDED |-> Locate(blobs, t, head, rget)]
       IN \E k \in DOMAIN SortedNeeded :
            /\ sel[SortedNeeded[k]] = None
            /\ \A j \in 1..(k - 1) : sel[SortedNeeded[j]] # None
            /\ selected' = [t \in NEEDED |->
                              IF \E j \in 1..(k - 1) : SortedNeeded[j] = t THEN sel[t] ELSE None]
            /\ result' = Failure(<<"Missing remote parquet for table", SortedNeeded[k]>>)
            /\ requests' = requests \o DiscoverRequests(service, head, rget, k)
    /\ ~ListRaises(service)
    /\ pc' = "done"
    /\ UNCHANGED <<inputs, history, reader, cache, tabs, joined, rs, current_step, resolved, current_location>>

\* lines 206-253
LoadTables ==
    /\ pc = "load"
    /\ IF LoadKeyError(TablesRead) \/ LoadTypeError(TablesRead) THEN FALSE
       ELSE ~(floatKeys /\ LoadHazard(TablesRead))
    /\ tabs' = Lookups(TablesRead)
    /\ joined' = JoinAll(TablesRead)
    /\ requests' = requests \o LoadRequests
    /\ pc' = "status"
    /\ UNCHANGED <<inputs, history, reader, cache, selected, rs, current_step, resolved, current_location,
                   result>>

\* lines 271-302
Status ==
    /\ pc = "status"
    /\ rs' = rs_df(TablesRead)
    /\ requests' = requests \o StatusRequests
    /\ pc' = "pick"
    /\ UNCHANGED <<inputs, history, reader, cache, selected, tabs, joined, current_step, resolved,
                   current_location, result>>

\* lines 304-315
PickCurrent ==
    /\ pc = "pick"
    /\ "RunId" \in rs.cols
    /\ current_step' = current_step_df(rs)
    /\ pc' = "resolve"
    /\ UNCHANGED <<inputs, history, reader, cache, requests, selected, tabs, joined, rs, resolved,
                   current_location, result>>

\* lines 318-347
Resolve ==
    /\ pc = "resolve"
    /\ IF ResolveKeyError(current_step, tabs) THEN FALSE
       ELSE ~(floatKeys /\ ResolveHazard(current_step, tabs))
    /\ resolved' = ResolveAll(current_step, tabs)
    /\ current_location' = current_location_df(resolved'[6])
    /\ pc' = "project"
    /\ UNCHANGED <<inputs, history, reader, cache, requests, selected, tabs, joined, rs, current_step, result>>

\* lines 352-373
Project ==
    /\ pc = "project"
    /\ result' = Success(Batches(current_location))
    /\ pc' = "done"
    /\ UNCHANGED <<inputs, history, reader, cache, requests, selected, tabs, joined, rs, current_step, resolved,
                   current_location>>


\* the step at pc raises: a request of the listing, a KeyError, or the
\* ValueError of a dtype hazard
Raises ==
    CASE pc = "start" -> ListRaises(service)
      [] pc = "load" -> IF LoadKeyError(TablesRead) \/ LoadTypeError(TablesRead) THEN TRUE
                        ELSE floatKeys /\ LoadHazard(TablesRead)
      [] pc = "pick" -> "RunId" \notin rs.cols
      [] pc = "resolve" -> IF ResolveKeyError(current_step, tabs) THEN TRUE
                           ELSE floatKeys /\ ResolveHazard(current_step, tabs)
      [] OTHER -> FALSE

\* the requests of the step at pc up to the point where it raises
RaisingRequests ==
    IF pc = "start" THEN ListRequestsFrom(service, 1)
    ELSE IF pc = "load" THEN LoadRequests
    ELSE <<>>

\* lines 375-379: an exception of any step becomes the failure payload
Abort ==
    /\ Raises
    /\ result' = Failure(<<"exception">>)
    /\ requests' = requests \o RaisingRequests
    /\ pc' = "done"
    /\ UNCHANGED <<inputs, history, reader, cache, selected, tabs, joined, rs, current_step, resolved,
                   current_location>>

Next == Discover \/ Missing \/ LoadTables \/ Status \/ PickCurrent \/ Resolve \/ Project \/ Abort

\* the endpoint is called again (app.py registers the function as a route):
\* the locals of the invocation that returned are gone, the module keeps
\* nothing but the constants and the HTTP session, and the new invocation
\* observes the input next
Reinvoke(next) ==
    /\ pc = "done"
    /\ calls < MaxCalls
    /\ previous' = Append(previous, [input |-> CurrentInput, outcome |-> Outcome,
                                      requests |-> requests])
    /\ calls' = calls + 1
    /\ service' = next.service /\ head' = next.head /\ rget' = next.rget
    /\ files' = next.files /\ floatKeys' = next.floatKeys
    /\ requests' = <<>>
    /\ selected' = [t \in NEEDED |-> None]
    /\ tabs' = [pm |-> NoFrame, process |-> NoFrame, category |-> NoFrame,
                ptc |-> NoFrame, ptype |-> NoFrame, run |-> NoFrame]
    /\ joined' = <<>>
    /\ rs' = NoFrame
    /\ current_step' = NoFrame
    /\ resolved' = <<>>
    /\ current_location' = NoFrame
    /\ result' = NoResult
    /\ pc' = "start"
    /\ UNCHANGED <<reader, cache>>

\* ------------------------------------------------------------------ enumerated inputs

SeqUpTo(S, n) == UNION {[1..k -> S] : k \in 0..n}

File(cols, rows) == [ok |-> TRUE, cols |-> cols, rows |-> rows]
\* a blob whose download or parse fails
Failed == [ok |-> FALSE, cols |-> {}, rows |-> <<>>]

\* the file with the columns cols of the schema only
Without(file, cols) ==
    File(file.cols \ cols, [i \in DOMAIN file.rows |-> Restrict(file.rows[i], file.cols \ cols)])

StepRow(r, pm, seq, sd, st, fd, ft, bi, fi) ==
    [RunId |-> r, ProcessModuleId |-> pm, Sequence |-> seq,
     StartDate |-> sd, StartTime |-> st, FinishDate |-> fd, FinishTime |-> ft,
     __batch_index |-> bi, __fragment_index |-> fi]
StepFile(rows) == File(rs_cols_desired, rows)

RunRow(id, label, name, motivation) ==
    [Id |-> id, Label |-> label, Name |-> name, Motivation |-> motivation,
     Status |-> "Active", RunTypeId |-> 1]
RunFile(rows) == File({"Id", "Label", "Name", "Motivation", "Status", "RunTypeId"}, rows)

PmRow(id, processId) == [Id |-> id, ProcessId |-> processId, ModuleId |-> 7]
PmFile(rows) == File({"Id", "ProcessId", "ModuleId"}, rows)

ProcessRow(id, name, categoryId) == [Id |-> id, Name |-> name, CategoryId |-> categoryId]
ProcessFile(rows) == File({"Id", "Name", "CategoryId"}, rows)

NamedRow(id, name) == [Id |-> id, Name |-> name]
NamedFile(rows) == File({"Id", "Name"}, rows)

PtcRow(typeId, categoryId) == [TypeId |-> typeId, CategoryId |-> categoryId]
PtcFile(rows) == File({"TypeId", "CategoryId"}, rows)

\* a consistent snapshot: two runs, three steps, every reference resolved
DefaultFiles ==
    [run |-> RunFile(<<RunRow(1, "B-1", "first", "<p>scale-up</p>"),
                       RunRow(2, "B-2", "second", NA)>>),
     run_step |-> StepFile(<<StepRow(1, 1, 1, 1, 10, 1, 10, 1, 1),
                             StepRow(1, 2, 2, 2, 0, NULL, NULL, 1, 2),
                             StepRow(2, 1, 1, NULL, NULL, NULL, NULL, 2, 1)>>),
     process_module |-> PmFile(<<PmRow(1, 1), PmRow(2, 2)>>),
     process |-> ProcessFile(<<ProcessRow(1, "etch", 1), ProcessRow(2, "rinse", 1)>>),
     process_category |-> NamedFile(<<NamedRow(1, "wet")>>),
     process_type_category |-> PtcFile(<<PtcRow(1, 1)>>),
     process_type |-> NamedFile(<<NamedRow(1, "chemical"), NamedRow(2, "thermal")>>)]

\* the listing names every table's snapshot in one page
FullListing ==
    <<Page(TRUE, FALSE, FALSE, [k \in DOMAIN SortedNeeded |-> Blob(SortedNeeded[k], "leaf", 0)])>>
\* the LIST request fails
NoListing == <<Page(FALSE, FALSE, FALSE, <<>>)>>
FirstCandidates == {<<t, 1>> : t \in NEEDED}

Input(sv, hd, rg, fs) ==
    [service |-> sv, head |-> hd, rget |-> rg, files |-> fs, floatKeys |-> FALSE]
Listed(fs) == Input(FullListing, {}, {}, fs)

\* inputs that take the pipeline through its other exits
CornerInputs ==
    {Input(NoListing, FirstCandidates, {}, DefaultFiles),
     Input(NoListing, FirstCandidates \ {<<"run", 1>>}, {<<"run", 3>>}, DefaultFiles),
     Input(NoListing, FirstCandidates \ {<<"process_type", 1>>}, {}, DefaultFiles),
     Input(<<Page(TRUE, FALSE, FALSE, <<Blob("run", "suffix", 0), Blob("", "other", 0)>>)>>,
           {}, {}, DefaultFiles),
     Input(<<Page(TRUE, FALSE, TRUE, <<Blob("run", "leaf", 0)>>), Page(TRUE, TRUE, FALSE, <<>>)>>,
           FirstCandidates, {}, DefaultFiles),
     Listed([DefaultFiles EXCEPT !["process_module"] = Without(@, {"ProcessId"})]),
     Listed([DefaultFiles EXCEPT !["process_module"] = Without(@, {"ModuleId"})]),
     Listed([DefaultFiles EXCEPT !["run_step"] = Without(@, {"RunId", "ProcessModuleId"})]),
     Listed([DefaultFiles EXCEPT !["run_step"] = Failed, !["process"] = Failed]),
     Listed([DefaultFiles EXCEPT !["run_step"] = Failed])}

\* --- families of snapshots.  A dense family enumerates every combination of
\* a fixed small domain for at most two (three where said) rows; a scaled
\* family varies fewer columns, over the domains and the row count that the
\* bounds MaxId, MaxDay, MaxOrd and MaxSteps set.
Small == {1, 2}
Nullable(S) == S \cup {NULL}
UpToTwo(S) == {<<>>} \cup {<<a>> : a \in S} \cup {<<a, b>> : a, b \in S}
Three(S) == {<<a, b, c>> : a, b, c \in S}
OrdinalCols == {"__batch_index", "__fragment_index"}

WithSteps(file) == Listed([DefaultFiles EXCEPT !["run_step"] = file])

\* --- snapshots for the joins: the references of the steps and the lookup
\* tables vary, the steps carry no timestamps and no ordinals
JoinStep(r, pm) == StepRow(r, pm, NULL, NULL, NULL, NULL, NULL, NULL, NULL)
JoinRunFiles ==
    {Failed,
     RunFile(<<RunRow(1, "B-1", "first", "<p>scale-up</p>")>>),
     RunFile(<<RunRow(1, "B-1", "first", NA), RunRow(1, "B-1b", "again", NA)>>),
     RunFile(<<RunRow(2, NA, NA, NA), RunRow(1, "B-1", "first", "plain")>>)}
JoinPmFiles == {Failed, PmFile(<<PmRow(1, 1)>>)}
JoinProcessFiles ==
    {Failed, ProcessFile(<<ProcessRow(1, "etch", 1)>>), ProcessFile(<<ProcessRow(1, "etch", NULL)>>)}
\* the process_category and the process_type file
JoinNameFiles ==
    {<<NamedFile(<<NamedRow(1, "wet")>>), NamedFile(<<NamedRow(1, "chemical"), NamedRow(2, "thermal")>>)>>,
     <<Failed, NamedFile(<<NamedRow(1, "chemical"), NamedRow(2, "thermal")>>)>>,
     <<NamedFile(<<NamedRow(1, "wet")>>), Failed>>}
PtcRows == {PtcRow(1, 1), PtcRow(2, 1)}
JoinPtcFiles == {Failed} \cup {PtcFile(rows) : rows \in UpToTwo(PtcRows)}

\* pandas may refuse a merge of this snapshot's frames: two empty key
\* columns, one of them untyped
MayRaiseValueError(fs) ==
    IF LoadKeyError(fs) \/ LoadTypeError(fs) THEN FALSE
    ELSE IF LoadHazard(fs) THEN TRUE
    ELSE IF "RunId" \notin rs_df(fs).cols THEN FALSE
    ELSE IF ResolveKeyError(current_step_df(rs_df(fs)), Lookups(fs)) THEN FALSE
    ELSE ResolveHazard(current_step_df(rs_df(fs)), Lookups(fs))

\* the invocation is entered with the input in, its empty numeric key
\* columns of either dtype
EnterAny(in) ==
    \E f \in (IF MayRaiseValueError(in.files) THEN BOOLEAN ELSE {FALSE}) :
        Enter([in EXCEPT !.floatKeys = f])

InitCorner == \E in \in CornerInputs : EnterAny(in)

InitJoin ==
    \E r \in JoinRunFiles,
       steps \in UpToTwo({JoinStep(id, pm) : id \in Nullable(Small), pm \in {1, NULL}}),
       pm \in JoinPmFiles, p \in JoinProcessFiles, n \in JoinNameFiles, ptc \in JoinPtcFiles :
        EnterAny(Listed([run |-> r, run_step |-> StepFile(steps), process_module |-> pm,
                         process |-> p, process_category |-> n[1],
                         process_type_category |-> ptc, process_type |-> n[2]]))

\* lookup tables for the scaled steps: resolved, fanned out, keyed by a
\* missing Id (the "ghost" process), unreadable
ScaledLookups ==
    {DefaultFiles,
     [DefaultFiles EXCEPT !["process_type_category"] = PtcFile(<<PtcRow(1, 1), PtcRow(2, 1)>>)],
     [DefaultFiles EXCEPT !["process_module"] = PmFile(<<PmRow(1, NULL)>>),
                          !["process"] = ProcessFile(<<ProcessRow(NULL, "ghost", 1),
                                                       ProcessRow(1, "etch", 1)>>)],
     [DefaultFiles EXCEPT !["process"] = ProcessFile(<<ProcessRow(NULL, "ghost", 1),
                                                       ProcessRow(1, "etch", 1)>>)],
     [DefaultFiles EXCEPT !["process_module"] = PmFile(<<PmRow(1, NULL)>>)],
     [DefaultFiles EXCEPT !["run"] = Failed, !["process_module"] = Failed,
                          !["process"] = Failed, !["process_category"] = Failed,
                          !["process_type_category"] = Failed, !["process_type"] = Failed],
     [DefaultFiles EXCEPT !["run"] = RunFile(<<RunRow(1, "B-1", "first", NA),
                                               RunRow(1, "B-1b", "again", NA)>>),
                          !["process_category"] = Failed],
     [DefaultFiles EXCEPT !["process"] = ProcessFile(<<ProcessRow(1, "etch", NULL)>>),
                          !["process_type"] = Failed]}
InitJoinScaled ==
    \E fs \in ScaledLookups,
       steps \in SeqUpTo({JoinStep(id, pm) : id \in Nullable(Ids), pm \in {1, NULL}}, MaxSteps) :
        EnterAny(Listed([fs EXCEPT !["run_step"] = StepFile(steps)]))

Init == InitJoin \/ InitJoinScaled \/ InitCorner

Spec == Init /\ [][Next]_vars

\* --- snapshots for the current-step selection: the run_step table varies,
\* the lookup tables are those of DefaultFiles

\* timestamps against Sequence, no ordinal columns
InitDated ==
    \E rows \in UpToTwo({StepRow(r, 1, seq, sd, NULL, fd, NULL, NULL, NULL) :
                            r \in Nullable(Small), seq \in Nullable(Small),
                            sd \in Nullable(Small), fd \in Nullable(Small)}),
       drop \in {OrdinalCols, OrdinalCols \cup {"Sequence"}} :
        Enter(WithSteps(Without(StepFile(rows), drop)))

\* one step: dates and times of day, present, missing or garbled, and
\* snapshots without some of the four columns
TimedStepRows ==
    {StepRow(1, 1, NULL, sd, st, fd, ft, NULL, NULL) :
        sd \in {NULL, GARBLED, 1}, st \in {NULL, GARBLED, 10},
        fd \in {NULL, GARBLED, 1}, ft \in {NULL, GARBLED} \cup Hours}
InitTimed ==
    \E row \in TimedStepRows,
       drop \in {{}, {"StartDate"}, {"StartTime"}, {"FinishDate"}, {"FinishTime"},
                 {"StartDate", "StartTime"},
                 {"StartDate", "StartTime", "FinishDate", "FinishTime"}} :
        Enter(WithSteps(Without(StepFile(<<row>>), drop)))

\* ordinals against Sequence, no timestamps
InitOrdered ==
    \E rows \in UpToTwo({StepRow(r, 1, seq, NULL, NULL, NULL, NULL, bi, fi) :
                            r \in Nullable(Small), seq \in Nullable(Small),
                            bi \in Nullable(Small), fi \in Nullable(Small)}),
       drop \in {{}, {"__batch_index"}, {"__fragment_index"}, OrdinalCols,
                 OrdinalCols \cup {"Sequence"}} :
        Enter(WithSteps(Without(StepFile(rows), drop)))

\* one run, all of the ladder's columns at once
InitMixed ==
    \E rows \in UpToTwo({StepRow(1, 1, seq, sd, NULL, NULL, NULL, bi, 1) :
                            seq \in Nullable(Small), sd \in Nullable(Small),
                            bi \in Nullable(Small)}) :
        Enter(WithSteps(StepFile(rows)))

\* one run of three steps
InitLong ==
    \E rows \in Three({StepRow(1, 1, NULL, sd, NULL, NULL, NULL, bi, 1) :
                          sd \in Nullable(Small), bi \in Nullable(Small)}) :
        Enter(WithSteps(StepFile(rows)))

\* scaled: start dates of one run against a finish date
InitDatedScaled ==
    \E rows \in SeqUpTo({StepRow(1, 1, NULL, sd, NULL, fd, NULL, NULL, NULL) :
                            sd \in Nullable(Days), fd \in {NULL, 1}}, MaxSteps) :
        Enter(WithSteps(Without(StepFile(rows), OrdinalCols \cup {"Sequence"})))
\* scaled: the steps of several runs, started or not
InitRunsScaled ==
    \E rows \in SeqUpTo({StepRow(r, 1, NULL, sd, NULL, NULL, NULL, NULL, NULL) :
                            r \in Nullable(Ids), sd \in {NULL, 1}}, MaxSteps) :
        Enter(WithSteps(Without(StepFile(rows), OrdinalCols \cup {"Sequence"})))
\* scaled: Sequence against a start date, with and without the ordinal columns
InitSequenceScaled ==
    \E rows \in SeqUpTo({StepRow(1, 1, seq, sd, NULL, NULL, NULL, 1, 1) :
                            seq \in Nullable(Ords), sd \in {NULL, 1}}, MaxSteps),
       drop \in {{}, OrdinalCols} :
        Enter(WithSteps(Without(StepFile(rows), drop)))
\* scaled: the batch ordinal against the fragment ordinal
InitOrdinalsScaled ==
    \E rows \in SeqUpTo({StepRow(1, 1, NULL, NULL, NULL, NULL, NULL, bi, fi) :
                            bi \in Nullable(Ords), fi \in {NULL, 1}}, MaxSteps),
       drop \in {{}, {"Sequence"}} :
        Enter(WithSteps(Without(StepFile(rows), drop)))

InitPick ==
    \/ InitDated \/ InitTimed \/ InitOrdered \/ InitMixed \/ InitLong
    \/ InitDatedScaled \/ InitRunsScaled \/ InitSequenceScaled \/ InitOrdinalsScaled
    \/ InitCorner

SpecPick == InitPick /\ [][Next]_vars

\* --- snapshots for the run identifiers of run_step: 0, missing and not
\* numeric ones among the steps, against a run table with rows and one
\* that could not be read
RunIdCells == {0, 1, NULL, GARBLED}
InitRunIds ==
    \E rows \in UpToTwo({StepRow(r, 1, NULL, sd, NULL, NULL, NULL, NULL, NULL) :
                            r \in RunIdCells, sd \in {NULL, 1, 2}})
                 \cup Three({StepRow(r, 1, NULL, sd, NULL, NULL, NULL, NULL, NULL) :
                               r \in RunIdCells, sd \in {NULL, 1}}),
       fs \in {DefaultFiles, [DefaultFiles EXCEPT !["run"] = Failed]} :
        EnterAny(Listed([fs EXCEPT !["run_step"] =
                            Without(StepFile(rows), OrdinalCols \cup {"Sequence"})]))
SpecRunIds == (InitRunIds \/ InitCorner) /\ [][Next]_vars

\* --- snapshots for the process_module representative: the process_module
\* table varies
WithPm(rows) == Listed([DefaultFiles EXCEPT !["process_module"] = PmFile(rows)])
InitPm ==
    \/ \E rows \in UpToTwo({PmRow(id, p) : id \in Nullable(Small), p \in Nullable(Small)})
                    \cup Three({PmRow(id, p) : id \in Nullable(Small), p \in Nullable(Small)}) :
          Enter(WithPm(rows))
    \/ \E rows \in SeqUpTo({PmRow(id, p) : id \in Nullable(Ids), p \in Nullable(Ids)}, MaxSteps) :
          Enter(WithPm(rows))
    \/ InitCorner

SpecPm == InitPm /\ [][Next]_vars

\* --- invocations in a row.  The first observes one of TwiceInputs; each
\* later one observes what the one before it observed, what the first
\* observed, or one of OtherInputs.
TwiceInputs ==
    CornerInputs
    \cup {WithPm(<<PmRow(1, a), PmRow(1, b)>>) : a, b \in Nullable(Small)}
    \cup {WithSteps(StepFile(<<JoinStep(1, a), JoinStep(1, b)>>)) : a, b \in Small}
OtherInputs ==
    {Listed(DefaultFiles),
     WithPm(<<PmRow(1, 2), PmRow(2, 1)>>),
     Input(NoListing, FirstCandidates \ {<<"process_type", 1>>}, {}, DefaultFiles)}
InitTwice == \E in \in TwiceInputs : EnterAny(in)
Again == \E next \in {CurrentInput} \cup {previous[k].input : k \in DOMAIN previous} \cup OtherInputs :
            Reinvoke(next)
NextTwice == Next \/ Again
SpecTwice == InitTwice /\ [][NextTwice]_vars

\* --- inputs for the discovery: the listing and the answers to the probes
\* vary, the tables are those of DefaultFiles
ListedBlobs ==
    {Blob("run", "leaf", 0), Blob("run", "DIR", 1), Blob("run", "dir", 2),
     Blob("run", "suffix", 0), Blob("", "other", 0), Blob("process", "SUFFIX", 0)}
\* the answers to the probes of the run candidates and of the process candidates
RunProbes ==
    {[head |-> {}, rget |-> {}], [head |-> {<<"run", 1>>}, rget |-> {}],
     [head |-> {<<"run", 3>>}, rget |-> {<<"run", 2>>}],
     [head |-> {}, rget |-> {<<"run", 4>>}]}
ProcessProbes ==
    {[head |-> {}, rget |-> {}], [head |-> {<<"process", 1>>, <<"process", 2>>}, rget |-> {}],
     [head |-> {}, rget |-> {<<"process", 3>>}]}
\* every other table answers the HEAD of its first candidate
OtherProbes == {<<t, 1>> : t \in NEEDED \ {"run", "process"}}

InitLocate ==
    \E names \in SeqUpTo(ListedBlobs, MaxBlobs), r \in RunProbes, p \in ProcessProbes,
       answer \in {"200", "403", "raises"} :
        /\ answer = "200" \/ Len(names) <= 1
        /\ Enter(Input(<<Page(answer # "403", answer = "raises", FALSE, names)>>,
                       OtherProbes \cup r.head \cup p.head, r.rget \cup p.rget, DefaultFiles))

SpecLocate == InitLocate /\ [][Next]_vars

\* --- listings of several pages.  A page that answers 200 holds some names
\* and a NextMarker or not; a page that answers another status, or whose
\* request raises, holds nothing.  The last page of a service has no
\* NextMarker: the service ends.
PageNames == {<<>>, <<Blob("run", "leaf", 0), Blob("", "other", 0)>>}
Pages ==
    {Page(TRUE, FALSE, next, names) : next \in BOOLEAN, names \in PageNames}
    \cup {Page(FALSE, FALSE, FALSE, <<>>), Page(TRUE, TRUE, FALSE, <<>>)}
InitList ==
    \E sv \in SeqUpTo(Pages, MaxPages) \ {<<>>},
       hd \in {FirstCandidates, FirstCandidates \ {<<"process_type", 1>>}} :
        /\ ~sv[Len(sv)].next
        /\ Enter(Input(sv, hd, {}, DefaultFiles))
SpecList == InitList /\ [][Next]_vars

\* --- one call of read_parquet_subset on its own: the blob and the wanted
\* columns are the inputs, returned is the table the call returns.
ColumnNames == {"Id", "Name", "Extra"}
WantedNames == {"Id", "Name", "Label"}
RowCounts == {0, 1, 2}
\* the cell of row r in the column at position c of the file
Cell(r, c) == 10 * r + c
Parquet(status, schema, n) ==
    [form |-> "parquet", status |-> status, schema |-> schema,
     rows |-> [r \in 1..n |-> [c \in DOMAIN schema |-> Cell(r, c)]]]
NoRepeat(s) == Len(s) = Cardinality(Range(s))

InitRead ==
    /\ pc = "read"
    /\ CacheIdle
    /\ Arrive(Listed(DefaultFiles))
    /\ \E status \in {"ok", "http", "transport", "corrupt"},
          schema \in SeqUpTo(ColumnNames, MaxCols), n \in RowCounts :
           /\ status = "ok" \/ (n = 1 /\ Len(schema) <= 1)
           /\ parquet = Parquet(status, schema, n)
    /\ wanted \in {c \in SeqUpTo(WantedNames, 2) : NoRepeat(c)}
    /\ returned = NotReturned

\* the download or the parse fails: the early return (lines 126-128) and
\* the except branch (lines 174-178)
ReadFails ==
    /\ pc = "read"
    /\ ReadFailure(parquet)
    /\ returned' = read_parquet_ordered(parquet, wanted)
    /\ pc' = "returned"
    /\ UNCHANGED <<inputs, history, cache, parquet, wanted, requests, selected, tabs, joined, rs,
                   current_step, resolved, current_location, result>>

\* the blob is read and cut to the wanted columns (lines 130-172)
ReadParses ==
    /\ pc = "read"
    /\ ~ReadFailure(parquet)
    /\ returned' = read_parquet_ordered(parquet, wanted)
    /\ pc' = "returned"
    /\ UNCHANGED <<inputs, history, cache, parquet, wanted, requests, selected, tabs, joined, rs,
                   current_step, resolved, current_location, result>>

NextRead == ReadFails \/ ReadParses
SpecRead == InitRead /\ [][NextRead]_vars

\* --- the calls of the cache manager.  The web workers and the scheduler
\* thread (cache_scheduler.py) call the one module-level instance.
pipeline == <<pc, inputs, history, reader, requests, selected, tabs, joined, rs, current_step,
              resolved, current_location, result>>

\* __init__ returned: _connect succeeded or not (lines 37-59), and the
\* collection is empty
InitCache ==
    /\ pc = "cache"
    /\ Arrive(Listed(DefaultFiles))
    /\ parquet = None /\ wanted = <<>> /\ returned = NotReturned
    /\ connected \in BOOLEAN
    /\ store = <<>>
    /\ now = 0
    /\ pending = [c \in Callers |-> NoDocument]
    /\ got = NoGet
    /\ expect = [k \in CacheKeys |-> NoDocument]

\* get (lines 61-89): one of the unexpired documents of the key, or None
CacheGet(key) ==
    /\ pc = "cache"
    /\ IF connected /\ Live(key) # {}
       THEN \E i \in Live(key) : got' = [key |-> key, value |-> store[i].data]
       ELSE got' = [key |-> key, value |-> NoData]
    /\ UNCHANGED <<pipeline, connected, store, now, pending, expect>>

\* set returns False: without a connection (lines 100-105), or when
\* update_one raises on the data (lines 127-129)
CacheSetRefused(key, data) ==
    /\ pc = "cache"
    /\ ~connected \/ data = Unencodable
    /\ got' = NoGet
    /\ UNCHANGED <<pipeline, connected, store, now, pending, expect>>

\* set (lines 107-126) when update_one finds a document of the key: it
\* updates one of them and set returns True
CacheSetUpdate(c, key, data, ttl) ==
    /\ pc = "cache"
    /\ connected
    /\ pending[c] = NoDocument
    /\ LET expires_at == now + (IF ttl # 0 THEN ttl ELSE cache_ttl)
           doc == Document(key, data, expires_at)
       IN /\ \E i \in Matching(key) : store' = [store EXCEPT ![i] = doc]
          /\ expect' = [expect EXCEPT ![key] = doc]
    /\ got' = NoGet
    /\ UNCHANGED <<pipeline, connected, now, pending>>

\* set when update_one finds no document of the key: the upsert will insert
\* one.  No unique index on key keeps two upserts of the same key apart
\* (lines 48-52 create the index on expires_at only).
CacheSetUpsert(c, key, data, ttl) ==
    /\ pc = "cache"
    /\ connected
    /\ pending[c] = NoDocument
    /\ Matching(key) = {}
    /\ pending' = [pending EXCEPT ![c] =
                      Document(key, data, now + (IF ttl # 0 THEN ttl ELSE cache_ttl))]
    /\ got' = NoGet
    /\ UNCHANGED <<pipeline, connected, store, now, expect>>

\* the upsert inserts its document and set returns True
CacheSetInsert(c) ==
    /\ pc = "cache"
    /\ pending[c] # NoDocument
    /\ store' = Append(store, pending[c])
    /\ expect' = [expect EXCEPT ![pending[c].key] = pending[c]]
    /\ pending' = [pending EXCEPT ![c] = NoDocument]
    /\ got' = NoGet
    /\ UNCHANGED <<pipeline, connected, now>>

\* invalidate (lines 131-157): delete_one for a truthy key, delete_many for
\* None and for ""
CacheInvalidate(key) ==
    /\ pc = "cache"
    /\ IF ~connected THEN UNCHANGED <<store, expect>>
       ELSE IF key \in CacheKeys
       THEN /\ IF Matching(key) = {} THEN store' = store
               ELSE \E i \in Matching(key) : store' = Take(store, DOMAIN store \ {i})
            /\ expect' = [expect EXCEPT ![key] = NoDocument]
       ELSE /\ store' = <<>>
            /\ expect' = [k \in CacheKeys |-> IF key = NoKey THEN NoDocument ELSE expect[k]]
    /\ got' = NoGet
    /\ UNCHANGED <<pipeline, connected, now, pending>>

\* the clock advances
Tick ==
    /\ pc = "cache"
    /\ now < MaxNow
    /\ now' = now + 1
    /\ got' = NoGet
    /\ UNCHANGED <<pipeline, connected, store, pending, expect>>

NextCache ==
    \/ \E key \in CacheKeys : CacheGet(key)
    \/ \E key \in SetKeys, data \in CacheData \cup {Unencodable} : CacheSetRefused(key, data)
    \/ \E c \in Callers, key \in SetKeys, data \in CacheData, ttl \in Ttls :
          CacheSetUpdate(c, key, data, ttl)
    \/ \E c \in Callers, key \in SetKeys, data \in CacheData, ttl \in Ttls :
          CacheSetUpsert(c, key, data, ttl)
    \/ \E c \in Callers : CacheSetInsert(c)
    \/ \E key \in CacheKeys \cup {NoKey, ""} : CacheInvalidate(key)
    \/ Tick
SpecCache == InitCache /\ [][NextCache]_vars

\* ------------------------------------------------------------------ properties

Done == pc = "done"
Succeeded == pc = "done" /\ result.success

BatchIds == {result.data[i].batch_id : i \in DOMAIN result.data}

\* the rows of a snapshot file as a reader sees them: none when the read fails
FileRows(table) == IF files[table].ok THEN files[table].rows ELSE <<>>
HasCol(table, col) == files[table].ok /\ col \in files[table].cols
\* the values of a column over the rows of a snapshot file
FileValues(table, col) ==
    IF HasCol(table, col) THEN {FileRows(table)[i][col] : i \in DOMAIN FileRows(table)} ELSE {}

\* the numeric RunIds that occur in the run_step snapshot / the run snapshot
StepRunIds == FileValues("run_step", "RunId") \ {NULL, GARBLED}
RunTableIds == FileValues("run", "Id") \ {NULL, GARBLED}

\* C1 (as claimed): on success no two records of the returned list have the
\* same batch_id, whatever the seven tables hold.
C1_OneRecordPerRun ==
    Succeeded =>
        \A i, j \in DOMAIN result.data :
            i # j => result.data[i].batch_id # result.data[j].batch_id

UniqueKey(df, col) ==
    \A i, j \in DOMAIN df.rows : i # j => df.rows[i][col] # df.rows[j][col]

\* the row counts along a join chain that starts from n rows never grow
NeverGrows(n, chain) ==
    /\ Len(chain[1].rows) <= n
    /\ \A k \in 1..(Len(chain) - 1) : Len(chain[k + 1].rows) <= Len(chain[k].rows)
\* the row counts along a join chain that starts from n rows never shrink
NeverShrinks(n, chain) ==
    /\ Len(chain[1].rows) >= n
    /\ \A k \in 1..(Len(chain) - 1) : Len(chain[k + 1].rows) >= Len(chain[k].rows)

\* C9 (as claimed): after de-duplication every right-hand table of a join
\* hop has at most one row per join-key value, and no hop of either join
\* pass returns more rows than its left-hand side has.
C9_NoHopFansOut ==
    /\ joined # <<>> =>
          /\ UniqueKey(tabs.pm, "Id") /\ UniqueKey(tabs.process, "ProcessId")
          /\ UniqueKey(tabs.category, "CategoryId") /\ UniqueKey(tabs.ptc, "CategoryId")
          /\ UniqueKey(tabs.ptype, "ProcessTypeId") /\ UniqueKey(tabs.run, "RunId")
          /\ NeverGrows(Len(run_step_df(files).rows), joined)
    /\ resolved # <<>> => NeverGrows(Len(current_step.rows), resolved)

\* v is the key of no row of the snapshot
NoRowWith(table, col, v) == v \notin FileValues(table, col)

\* C10: no hop of the second join pass returns fewer rows than its left-hand
\* side, so every current-step row has a record on success; and a record
\* whose ProcessModuleId, ProcessId, CategoryId or TypeId is the key of no
\* row of the referenced snapshot (none at all when its read failed) has the
\* empty string for the name that hop would have resolved.
C10_NoHopDropsARow ==
    /\ resolved # <<>> => NeverShrinks(Len(current_step.rows), resolved)
    /\ Succeeded =>
          /\ \A k \in DOMAIN current_step.rows :
                \E i \in DOMAIN result.data :
                    /\ result.data[i].batch_id = current_step.rows[k]["RunId"]
                    /\ current_location.rows[i]["index"] = current_step.rows[k]["index"]
          /\ \A i \in DOMAIN result.data :
                LET row == current_location.rows[i]
                    b == result.data[i]
                IN /\ NoRowWith("process_module", "Id", row["ProcessModuleId"])
                        => row["ProcessId"] = NULL
                   /\ NoRowWith("process", "Id", row["ProcessId"]) => b.process_name = ""
                   /\ NoRowWith("process_category", "Id", row["CategoryId"])
                        => b.category_name = ""
                   /\ (\/ NoRowWith("process_type_category", "CategoryId", row["CategoryId"])
                       \/ NoRowWith("process_type", "Id", row["TypeId"]))
                        => b.process_type_name = ""

\* C10 witness: a success with a record although the read of process failed
\* and the step's run is not in the run table; its names are empty strings.
C10_Witness ==
    /\ Succeeded
    /\ ~files["process"].ok
    /\ \E i \in DOMAIN result.data :
          /\ result.data[i].batch_id \notin RunTableIds
          /\ result.data[i].process_name = ""
          /\ result.data[i].category_name = ""
          /\ result.data[i].process_type_name = ""

\* ---- current step

Picked == pc \in {"resolve", "project", "done"} /\ current_step # NoFrame

\* the positions in rs of the steps of run r
StepsOf(r) == {i \in DOMAIN rs.rows : rs.rows[i]["RunId"] = r}
\* the runs of rs
RunsOfRs == {rs.rows[i]["RunId"] : i \in DOMAIN rs.rows} \ {NULL}
\* the positions in rs of the steps selected for run r
SelectedFor(r) ==
    {current_step.rows[k]["index"] : k \in {n \in DOMAIN current_step.rows :
                                                current_step.rows[n]["RunId"] = r}}
HasUpdatedAt(r) == \E i \in StepsOf(r) : notna(rs.rows[i]["updated_at"])

\* C3: for a run with a step that has updated_at, the selected step is one
\* step of that run, it has updated_at, and no step of the run has a later one.
C3_LatestUpdateSelected ==
    Picked =>
        \A r \in RunsOfRs :
            HasUpdatedAt(r) =>
                /\ Cardinality(SelectedFor(r)) = 1
                /\ \A s \in SelectedFor(r) :
                      /\ s \in StepsOf(r)
                      /\ notna(rs.rows[s]["updated_at"])
                      /\ \A i \in StepsOf(r) :
                            notna(rs.rows[i]["updated_at"])
                                => rs.rows[i]["updated_at"] <= rs.rows[s]["updated_at"]

\* C3 witness: a run whose step A has updated_at and whose step B has none
\* but the higher Sequence; A is selected.
C3_Witness ==
    /\ Picked
    /\ "Sequence" \in rs.cols
    /\ \E r \in RunsOfRs : \E a, b \in StepsOf(r) :
          /\ notna(rs.rows[a]["updated_at"]) /\ isna(rs.rows[b]["updated_at"])
          /\ notna(rs.rows[a]["Sequence"]) /\ notna(rs.rows[b]["Sequence"])
          /\ rs.rows[b]["Sequence"] > rs.rows[a]["Sequence"]
          /\ SelectedFor(r) = {a}

\* the ordinal of a step, missing columns counted as equal
OrdinalOf(row, col) == IF col \in DOMAIN row THEN row[col] ELSE 0
HasOrdinal(row) == \A c \in OrdinalCols \cap DOMAIN row : notna(row[c])
OrdinalLeq(a, b) ==
    \/ OrdinalOf(a, "__batch_index") < OrdinalOf(b, "__batch_index")
    \/ /\ OrdinalOf(a, "__batch_index") = OrdinalOf(b, "__batch_index")
       /\ OrdinalOf(a, "__fragment_index") <= OrdinalOf(b, "__fragment_index")

\* C4 (as claimed): for a run without updated_at in a snapshot that has an
\* ordinal column, the selected step is the step with the largest ordinal
\* (batch index, then fragment index) among the run's steps that have an
\* ordinal value, also when some steps of the run have none.
C4_HighestOrdinalSelected ==
    Picked =>
        \A r \in RunsOfRs :
            (/\ ~HasUpdatedAt(r)
             /\ OrdinalCols \cap rs.cols # {}
             /\ \E i \in StepsOf(r) : HasOrdinal(rs.rows[i]))
            => \A s \in SelectedFor(r) :
                  /\ HasOrdinal(rs.rows[s])
                  /\ \A i \in StepsOf(r) :
                        HasOrdinal(rs.rows[i]) => OrdinalLeq(rs.rows[i], rs.rows[s])

\* C5: whatever the run_step table lacks, exactly one row is selected for
\* every numeric RunId of the snapshot and none besides, the selected row is
\* a row of that run in the snapshot, and the selection does not raise.
C5_OneOwnRowPerRun ==
    /\ (pc = "pick" /\ HasCol("run_step", "RunId")) => ~Raises
    /\ Picked =>
          /\ Len(current_step.rows) = Cardinality(StepRunIds)
          /\ \A r \in StepRunIds :
                /\ Cardinality({k \in DOMAIN current_step.rows :
                                   current_step.rows[k]["RunId"] = r}) = 1
                /\ \A s \in SelectedFor(r) :
                      /\ s \in DOMAIN FileRows("run_step")
                      /\ FileRows("run_step")[s]["RunId"] = r

\* C5 witness: a snapshot without Sequence and without ordinal columns, no
\* step with a timestamp, a step without RunId, and a run with two steps.
C5_Witness ==
    /\ Picked
    /\ rs.cols \cap ({"Sequence"} \cup OrdinalCols) = {}
    /\ \A i \in DOMAIN rs.rows : isna(rs.rows[i]["updated_at"])
    /\ \E r \in StepRunIds : Cardinality(StepsOf(r)) = 2 /\ Cardinality(SelectedFor(r)) = 1

Statuses == {"Completed", "In Progress", "Not Started"}

\* C6: every run_step row has exactly one of the three statuses, Completed
\* iff it has a finish instant, In Progress iff it has a start and no finish
\* instant, Not Started iff it has neither; the process_status of every
\* record is one of the three.
C6_StatusTotalAndExclusive ==
    /\ rs # NoFrame =>
          \A i \in DOMAIN rs.rows :
              LET row == rs.rows[i]
              IN /\ row["status"] \in Statuses
                 /\ row["status"] = "Completed" <=> notna(row["finished_at"])
                 /\ row["status"] = "In Progress"
                      <=> (notna(row["started_at"]) /\ isna(row["finished_at"]))
                 /\ row["status"] = "Not Started"
                      <=> (isna(row["started_at"]) /\ isna(row["finished_at"]))
    /\ Succeeded => \A i \in DOMAIN result.data : result.data[i].process_status \in Statuses

\* C6 witness: a success that reports a run as Completed whose step has a
\* start and a finish instant, and another run as In Progress.
C6_Witness ==
    /\ Succeeded
    /\ \E i, j \in DOMAIN result.data :
          /\ result.data[i].process_status = "Completed"
          /\ result.data[i].started_at # <<>>
          /\ result.data[j].process_status = "In Progress"

\* C7 (as claimed): a run whose only step has FinishDate and FinishTime and
\* no start date (the value missing, or the snapshot without a StartDate
\* column) is reported Completed, started_at empty, finished_at the
\* combined finish instant.
C7_FinishedWithoutStart ==
    (/\ Succeeded
     /\ Len(FileRows("run_step")) = 1
     /\ HasCol("run_step", "FinishDate") /\ HasCol("run_step", "FinishTime")
     /\ FileRows("run_step")[1]["RunId"] \in Ids
     /\ FileRows("run_step")[1]["FinishDate"] \in Days
     /\ FileRows("run_step")[1]["FinishTime"] \in Hours
     /\ (HasCol("run_step", "StartDate") => FileRows("run_step")[1]["StartDate"] = NULL))
    => /\ Len(result.data) = 1
       /\ result.data[1].process_status = "Completed"
       /\ result.data[1].started_at = <<>>
       /\ result.data[1].finished_at =
             TimestampStr(FileRows("run_step")[1]["FinishDate"] * HoursPerDay
                          + FileRows("run_step")[1]["FinishTime"])

\* ---- process_module

\* the positions in the process_module snapshot of the rows with this Id
PmRowsOf(id) ==
    {i \in DOMAIN FileRows("process_module") : FileRows("process_module")[i]["Id"] = id}
\* those of them that are preferred: the rows with a ProcessId if there are any
PmPreferred(id) ==
    LET with == {i \in PmRowsOf(id) : notna(FileRows("process_module")[i]["ProcessId"])}
    IN IF with # {} THEN with ELSE PmRowsOf(id)

Referenced(frame, col, keys) ==
    {r \in Range(frame.rows) : notna(r[col]) /\ r[col] \in keys}
\* the names a record may show for a set of referenced rows
NamesOf(S, col) == {TextOr(r[col], "") : r \in S}

\* C11 (as claimed): on success the names of every record are those the
\* reference chain finds for its step: ProcessModuleId -> ProcessModule.Id,
\* its ProcessId -> Process.Id, its CategoryId -> ProcessCategory.Id and
\* -> ProcessTypeCategory.CategoryId, its TypeId -> ProcessType.Id; a step
\* whose reference is missing or refers to no row has the empty name.
C11_NamesFollowReferenceChain ==
    Succeeded =>
        \A i \in DOMAIN result.data :
            LET row == current_location.rows[i]
                b == result.data[i]
                modules == Referenced(tabs.pm, "Id", {row["ProcessModuleId"]})
                procs == Referenced(tabs.process, "ProcessId", {m["ProcessId"] : m \in modules})
                cats == Referenced(tabs.category, "CategoryId", {p["CategoryId"] : p \in procs})
                links == Referenced(tabs.ptc, "CategoryId", {p["CategoryId"] : p \in procs})
                TypesOf(l) == Referenced(tabs.ptype, "ProcessTypeId", {l["TypeId"]})
            IN /\ b.process_name \in (IF procs = {} THEN {""} ELSE NamesOf(procs, "ProcessName"))
               /\ b.category_name \in (IF cats = {} THEN {""} ELSE NamesOf(cats, "CategoryName"))
               /\ b.process_type_name \in
                     UNION {IF TypesOf(l) = {} THEN {""} ELSE NamesOf(TypesOf(l), "ProcessTypeName") :
                            l \in links}
                     \cup (IF links = {} THEN {""} ELSE {})

\* ---- discovery

\* the blob names the listing of this invocation returns
Listing == azure_list_blobs(service)
\* the positions in the listing of the paths whose last segment is
\* "<table>.parquet" / that end with "<table>.parquet", whatever the case
ExactIn(table) ==
    {i \in DOMAIN Listing : Listing[i].tbl = table /\ Listing[i].form \in {"leaf", "LEAF", "dir", "DIR"}}
SuffixIn(table) ==
    {i \in DOMAIN Listing : Listing[i].tbl = table /\ Listing[i].form \notin {"other", "none"}}
\* the candidates of a table that answer a probe
Answering(table) == {p \in 1..NumCandidates(table) : <<table, p>> \in head \cup rget}
\* the table is neither in the listing nor at a candidate path
Unlocatable(table) == SuffixIn(table) = {} /\ Answering(table) = {}

Downloads == {i \in DOMAIN requests : requests[i].verb = "GET"}

\* C12: when the listing request does not raise and some required table is
\* neither in the listing nor at any of its candidate paths, no table
\* snapshot is ever downloaded, and the invocation ends with the failure
\* payload (success false, HTTP 500, no records) whose error names such a
\* table, the first one in sorted order.
C12_MissingTableFailsFast ==
    (~ListRaises(service) /\ \E t \in NEEDED : Unlocatable(t)) =>
        /\ Downloads = {}
        /\ tabs.run = NoFrame /\ joined = <<>> /\ rs = NoFrame
        /\ Done =>
              /\ ~result.success /\ result.http = 500 /\ result.data = <<>>
              /\ \E k \in DOMAIN SortedNeeded :
                    /\ Unlocatable(SortedNeeded[k])
                    /\ \A j \in 1..(k - 1) : ~Unlocatable(SortedNeeded[j])
                    /\ result.error = <<"Missing remote parquet for table", SortedNeeded[k]>>

\* C12 witness: the listing names run only by a suffix match, process is
\* nowhere, and the invocation has ended naming process after probing its
\* three candidates with both verbs.
C12_Witness ==
    /\ Done
    /\ SuffixIn("run") # {} /\ Unlocatable("process")
    /\ result.error = <<"Missing remote parquet for table", "process">>
    /\ Cardinality({i \in DOMAIN requests : requests[i].tbl = "process"}) = 6

\* C20: while the listing has a path whose last segment is "<table>.parquet"
\* in any letter case, the blob selected for the table is the first such
\* path of the listing, even after an earlier path that only ends with it;
\* without an exact path it is the first path that ends with it; only
\* without either is the table looked for at its candidate paths.
C20_ExactMatchPreferred ==
    \A t \in NEEDED :
        LET first(S) == CHOOSE i \in S : \A j \in S : i <= j
        IN /\ (selected[t] # None /\ ExactIn(t) # {})
                => selected[t] = Listing[first(ExactIn(t))]
           /\ (selected[t] # None /\ ExactIn(t) = {} /\ SuffixIn(t) # {})
                => selected[t] = Listing[first(SuffixIn(t))]
           /\ (ExactIn(t) = {} /\ SuffixIn(t) = {})
                => /\ pick_blob_from_list(Listing, t) = None
                   /\ selected[t] # None => selected[t].form = "cand"
           /\ pc \notin {"start", "done"} => selected[t] # None
           /\ (Done /\ result.error = <<"Missing remote parquet for table", t>>)
                => SuffixIn(t) = {}

\* C20 witness: the listing holds a suffix-only path of run, then an exact
\* one in capitals, then a second exact one; the capital one is selected.
C20_Witness ==
    /\ pc = "load"
    /\ \E i, j, k \in DOMAIN Listing :
          /\ i < j /\ j < k
          /\ Listing[i] = Blob("run", "suffix", 0)
          /\ Listing[j] = Blob("run", "DIR", 1)
          /\ Listing[k] = Blob("run", "leaf", 0)
    /\ selected["run"] = Blob("run", "DIR", 1)

\* ---- outcomes

SuccessPayload ==
    /\ result.success /\ result.http = 200 /\ result.error = <<>>
    /\ result.count = Len(result.data)
FailurePayload ==
    /\ ~result.success /\ result.http = 500 /\ result.error # <<>>
    /\ result.data = <<>> /\ result.count = 0

\* C13: until the invocation returns there is no payload; the payload it
\* returns is either the success payload, whose count is the number of its
\* records, or the failure payload with HTTP 500, an error and no records;
\* and a step that raises is followed by nothing but the return of the
\* failure payload.
C13_OneOfTwoOutcomes ==
    /\ [](pc # "done" => result = NoResult)
    /\ [](Done => (SuccessPayload \/ FailurePayload))
    /\ [][Raises => (pc' = "done" /\ result' = Failure(<<"exception">>))]_vars

\* C13 witness: the invocation returned the failure payload for an exception
\* of the second join pass, after both the load and the selection succeeded.
C13_Witness ==
    /\ Done /\ result = Failure(<<"exception">>)
    /\ joined # <<>> /\ current_step.rows # <<>> /\ resolved = <<>>

\* every table was located: STEP 1 is over and STEP 2 was entered
AllLocated == \A t \in NEEDED : selected[t] # None
\* the read of the table yields no rows at all
ReadsEmpty(table, columns) == read_parquet_subset(files[table], columns).rows = <<>>

\* C14 (as claimed): when all seven tables are located and the read of run
\* or the read of run_step yields no rows, the invocation returns success
\* with an empty data list and count 0.
C14_EmptyRunOrStepsIsEmptySuccess ==
    (/\ Done /\ AllLocated
     /\ \/ ReadsEmpty("run", {"Id", "Label", "Name", "Motivation", "Status", "RunTypeId"})
        \/ ReadsEmpty("run_step", rs_cols_desired))
    => result = Success(<<>>)

\* ---- records

TextFields == {"batch_number", "batch_name", "batch_status", "motivation",
               "process_name", "category_name", "process_type_name"}
\* the column of current_location a text field is made from
ColumnOf(field) ==
    CASE field = "batch_number" -> "Label" [] field = "batch_name" -> "RunName"
      [] field = "batch_status" -> "Status" [] field = "motivation" -> "MotivationText"
      [] field = "process_name" -> "ProcessName" [] field = "category_name" -> "CategoryName"
      [] field = "process_type_name" -> "ProcessTypeName"

\* C15 (as claimed): in every record of a success a text field whose source
\* value is missing is the empty string, started_at and finished_at are
\* empty for a missing instant, batch_id is 0 for a missing identifier, and
\* no field holds the placeholder "Unknown".
C15_MissingIsEmptyString ==
    Succeeded =>
        \A i \in DOMAIN result.data :
            LET row == current_location.rows[i]
                b == result.data[i]
            IN /\ \A f \in TextFields :
                     /\ row[ColumnOf(f)] = NA => b[f] = ""
                     /\ b[f] # NA
               /\ isna(row["started_at"]) => b.started_at = <<>>
               /\ isna(row["finished_at"]) => b.finished_at = <<>>
               /\ isna(row["RunId"]) => b.batch_id = 0
               /\ b.batch_id # NULL
               /\ \A f \in TextFields \cup {"process_status"} : b[f] # "Unknown"

\* C16: on success no record is followed by a record with a larger batch_id.
C16_DescendingBatchIds ==
    Succeeded =>
        \A i \in 1..(Len(result.data) - 1) :
            result.data[i].batch_id >= result.data[i + 1].batch_id

\* C16 witness: a success with the records of two runs, whose current steps
\* the selection delivered in ascending RunId order.
C16_Witness ==
    /\ Succeeded
    /\ Len(current_step.rows) = 2
    /\ current_step.rows[1]["RunId"] < current_step.rows[2]["RunId"]
    /\ Len(result.data) = 2
    /\ result.data[1].batch_id = current_step.rows[2]["RunId"]
    /\ result.data[2].batch_id = current_step.rows[1]["RunId"]

\* --- the reader on its own

ReadReturned == pc = "returned"
Unreadable == parquet.status \in {"http", "transport", "corrupt"}

\* C17: when the download does not answer 200, the transport raises or the
\* file does not parse, read_parquet_subset returns a table without rows
\* whose columns are the requested columns in the requested order.
C17_FailureIsEmptyTable ==
    (ReadReturned /\ Unreadable) => (returned.columns = wanted /\ returned.rows = <<>>)

\* C17 witness: a file that does not parse was asked for Name then Id, and
\* the call returned these two headers in that order without rows.
C17_Witness ==
    /\ ReadReturned
    /\ parquet.status = "corrupt"
    /\ wanted = <<"Name", "Id">>
    /\ returned.columns = <<"Name", "Id">>
    /\ returned.rows = <<>>

\* the first position of the name c in the schema of the file
FirstOf(c) == CHOOSE i \in DOMAIN parquet.schema :
                 /\ parquet.schema[i] = c
                 /\ \A j \in 1..(i - 1) : parquet.schema[j] # c
Readable == parquet.status = "ok" /\ wanted # <<>>
\* the returned table holds each wanted column of the file once, from its
\* first occurrence, and the rows of the file in their order and number
SubsetOfFile ==
    /\ Range(returned.columns) = Range(wanted) \cap Range(parquet.schema)
    /\ NoRepeat(returned.columns)
    /\ Len(returned.rows) = Len(parquet.rows)
    /\ \A r \in DOMAIN returned.rows : \A k \in DOMAIN returned.columns :
           returned.rows[r][k] = parquet.rows[r][FirstOf(returned.columns[k])]

\* C18: for a readable file and a wanted list that is not empty, the
\* returned table has exactly the wanted columns that exist in the file,
\* each once from its first occurrence, and the rows of the file in the same
\* order and number, also when no wanted column exists in the file.
C18_WantedColumnsThatExist ==
    (ReadReturned /\ Readable) => SubsetOfFile

\* the set-based reader of the pipeline and the ordered reader agree on the
\* files whose schema has no repeated name
AsFile ==
    [ok |-> parquet.status = "ok", cols |-> Range(parquet.schema),
     rows |-> [r \in DOMAIN parquet.rows |->
                [c \in Range(parquet.schema) |-> parquet.rows[r][FirstOf(c)]]]]
AsFrame ==
    LET at(c) == CHOOSE k \in DOMAIN returned.columns : returned.columns[k] = c
    IN [cols |-> Range(returned.columns),
        rows |-> [r \in DOMAIN returned.rows |->
                   [c \in Range(returned.columns) |-> returned.rows[r][at(c)]]]]
ReadersAgree ==
    (ReadReturned /\ wanted # <<>> /\ NoRepeat(parquet.schema)) =>
        LET frame == read_parquet_subset(AsFile, Range(wanted))
        IN AsFrame.cols = frame.cols /\ AsFrame.rows = frame.rows

\* --- invocations in a row

\* the invocations that returned, this one included when it is done
Returned ==
    IF Done THEN Append(previous, [input |-> CurrentInput, outcome |-> Outcome,
                                    requests |-> requests])
    ELSE previous

ProbesOf(table) ==
    LET probe(r) == r.tbl = table /\ r.verb \in {"HEAD", "RANGE"}
    IN SelectSeq(requests, probe)
\* the probe answers 200 or 206
Answers(r) ==
    \/ r.verb = "HEAD" /\ <<r.tbl, r.pos>> \in head
    \/ r.verb = "RANGE" /\ <<r.tbl, r.pos>> \in rget
\* STEP 1 has dealt with the table: it selected a blob for it or gave up on it
Reached(table) ==
    /\ pc # "start"
    /\ selected[table] # None \/ result.error = <<"Missing remote parquet for table", table>>
\* the candidates are probed in their order, HEAD first, the ranged GET of a
\* candidate right after its HEAD failed, and nothing after an answer
ProbedInOrder(table) ==
    LET probes == ProbesOf(table)
    IN /\ probes # <<>>
       /\ probes[1] = Request("HEAD", table, 1)
       /\ \A i \in 1..(Len(probes) - 1) :
             /\ ~Answers(probes[i])
             /\ probes[i + 1] = IF probes[i].verb = "HEAD"
                                THEN Request("RANGE", table, probes[i].pos)
                                ELSE Request("HEAD", table, probes[i].pos + 1)
       /\ LET last == probes[Len(probes)]
          IN IF Answers(last) THEN selected[table] = Blob(table, "cand", last.pos)
             ELSE /\ last = Request("RANGE", table, NumCandidates(table))
                  /\ selected[table] = None

\* C21: a table without a match in the listing, and every table when the
\* listing request fails or lists nothing, is looked for at its candidate
\* paths in their order, HEAD and only then the ranged GET, up to the first
\* answer 200 or 206, which is selected; a table the listing names is not
\* probed; and the invocation does not fail because the listing is
\* unavailable: a failure of STEP 1 names a table that is at no candidate path.
C21_ProbeFallback ==
    /\ \A t \in NEEDED :
          Reached(t) => IF SuffixIn(t) = {} THEN ProbedInOrder(t) ELSE ProbesOf(t) = <<>>
    /\ (Done /\ Listing = <<>> /\ \A t \in NEEDED : Answering(t) # {}) => result.success

\* --- the cache manager

\* what the claim lets get return for the key: the data of the last set that
\* returned True while its expires_at is later than now, else None
Expected(key) ==
    IF expect[key] # NoDocument /\ expect[key].expires_at > now THEN expect[key].data
    ELSE NoData

\* C22: with the cache manager connected, get(key) returns the data of the
\* last set(key, data) that returned True, as long as that entry's
\* expires_at is later than now and no invalidate of the key (or of all
\* keys) returned since; otherwise (never set, expired, invalidated) it
\* returns None.
C22_GetReturnsLastSet ==
    (connected /\ got # NoGet) => got.value = Expected(got.key)

\* --- the lower rungs of the ladder

\* the snapshot's rows carry no ingestion ordinal: neither column exists
NoOrdinalColumn == OrdinalCols \cap rs.cols = {}
HasSequence(r) ==
    "Sequence" \in rs.cols /\ \E i \in StepsOf(r) : notna(rs.rows[i]["Sequence"])

\* C23: for a run without updated_at in a snapshot without ordinal columns,
\* when a step of the run has a Sequence, the selected step is a step of
\* the run with a Sequence and no step of the run has a larger one.
C23_MaxSequenceSelected ==
    Picked =>
        \A r \in RunsOfRs :
            (~HasUpdatedAt(r) /\ NoOrdinalColumn /\ HasSequence(r)) =>
                /\ Cardinality(SelectedFor(r)) = 1
                /\ \A s \in SelectedFor(r) :
                      /\ s \in StepsOf(r)
                      /\ notna(rs.rows[s]["Sequence"])
                      /\ \A i \in StepsOf(r) :
                            notna(rs.rows[i]["Sequence"])
                                => rs.rows[i]["Sequence"] <= rs.rows[s]["Sequence"]

\* C23 witness: a run of two steps without timestamps in a snapshot
\* without ordinal columns; the first step has the larger Sequence and is
\* selected, not the last row.
C23_Witness ==
    /\ Picked
    /\ NoOrdinalColumn
    /\ \E r \in RunsOfRs :
          /\ ~HasUpdatedAt(r)
          /\ StepsOf(r) = {1, 2}
          /\ notna(rs.rows[1]["Sequence"]) /\ notna(rs.rows[2]["Sequence"])
          /\ rs.rows[1]["Sequence"] > rs.rows[2]["Sequence"]
          /\ SelectedFor(r) = {1}

\* the last position in the run_step file of a row of run r
LastInFile(r) ==
    CHOOSE i \in DOMAIN FileRows("run_step") :
        /\ FileRows("run_step")[i]["RunId"] = r
        /\ \A j \in DOMAIN FileRows("run_step") :
              FileRows("run_step")[j]["RunId"] = r => j <= i

\* C24: for a run without updated_at in a snapshot without ordinal columns,
\* when no step of the run has a Sequence or the snapshot has no Sequence
\* column, the selected step is the last row of the run in the file order
\* of run_step.
C24_LastRowSelected ==
    Picked =>
        \A r \in RunsOfRs :
            (~HasUpdatedAt(r) /\ NoOrdinalColumn /\ ~HasSequence(r)) =>
                SelectedFor(r) = {LastInFile(r)}

\* C24 witness: a run of two steps without timestamps, ordinals and
\* Sequence values, in a snapshot that has a Sequence column; the second
\* row is selected.
C24_Witness ==
    /\ Picked
    /\ NoOrdinalColumn
    /\ "Sequence" \in rs.cols
    /\ \E r \in RunsOfRs :
          /\ ~HasUpdatedAt(r) /\ ~HasSequence(r)
          /\ StepsOf(r) = {1, 2}
          /\ SelectedFor(r) = {2}

\* --- the instants

StatusDone == rs # NoFrame
\* the date and the time-of-day columns of the two instants
InstantCols ==
    {[date |-> "StartDate", time |-> "StartTime", at |-> "started_at"],
     [date |-> "FinishDate", time |-> "FinishTime", at |-> "finished_at"]}
\* the cell of row i of the run_step file, missing when the file has no such column
FileCell(i, col) ==
    IF HasCol("run_step", col) THEN FileRows("run_step")[i][col] ELSE NULL
BothDateColumns == HasCol("run_step", "StartDate") /\ HasCol("run_step", "FinishDate")

\* C25: in a snapshot with both date columns, a valid date with a missing
\* or garbled time of day gives the instant of that date at midnight, and an
\* instant is 'no value' only when its date is missing or invalid.
C25_BadTimeIsMidnight ==
    (StatusDone /\ BothDateColumns) =>
        \A i \in DOMAIN rs.rows : \A c \in InstantCols :
            /\ (FileCell(i, c.date) \in Days /\ FileCell(i, c.time) \in {NULL, GARBLED})
                  => rs.rows[i][c.at] = FileCell(i, c.date) * HoursPerDay
            /\ isna(rs.rows[i][c.at]) => FileCell(i, c.date) \in {NULL, GARBLED}

\* C26: updated_at of a run_step row is the later of its start and finish
\* instants when it has both, the one it has when it has one, and missing
\* exactly when it has neither.
C26_UpdatedAtIsLater ==
    StatusDone =>
        \A i \in DOMAIN rs.rows :
            LET s == rs.rows[i]["started_at"]
                f == rs.rows[i]["finished_at"]
                u == rs.rows[i]["updated_at"]
            IN /\ (notna(s) /\ notna(f)) => (u \in {s, f} /\ u >= s /\ u >= f)
               /\ (notna(s) /\ isna(f)) => u = s
               /\ (isna(s) /\ notna(f)) => u = f
               /\ isna(u) <=> (isna(s) /\ isna(f))

\* C26 witness: a step in progress that started after another step
\* finished has the larger updated_at.
C26_Witness ==
    /\ StatusDone
    /\ \E i, j \in DOMAIN rs.rows :
          /\ rs.rows[i]["status"] = "In Progress" /\ rs.rows[j]["status"] = "Completed"
          /\ rs.rows[i]["started_at"] > rs.rows[j]["finished_at"]
          /\ rs.rows[i]["updated_at"] > rs.rows[j]["updated_at"]

\* --- the pages of the listing

\* the LIST requests of the invocation, in order
Lists ==
    LET list(r) == r.verb = "LIST"
    IN SelectSeq(requests, list)
\* the first page without a NextMarker or with an answer other than 200
StopAt ==
    CHOOSE k \in DOMAIN service :
        /\ ~service[k].ok \/ ~service[k].next
        /\ \A j \in 1..(k - 1) : service[j].ok /\ service[j].next

\* C27: when no LIST request raises, azure_list_blobs requests page after
\* page, each with the marker of the page before, up to and including the
\* first page that has no NextMarker or answers another status than 200,
\* and no further; when every page answered 200 the listing holds the
\* names of all these pages in page order.
C27_PaginationFollowsMarker ==
    (pc # "start" /\ ~ListRaises(service)) =>
        /\ Lists = [k \in 1..StopAt |-> Request("LIST", "", k - 1)]
        /\ (\A k \in 1..StopAt : service[k].ok) =>
              azure_list_blobs(service) = Concat([k \in 1..StopAt |-> service[k].names])
        /\ \A t \in NEEDED :
              (Reached(t) /\ \A k \in 1..StopAt : service[k].ok) =>
                  (selected[t].form = "leaf"
                     <=> \E k \in 1..StopAt : Blob(t, "leaf", 0) \in Range(service[k].names))

\* C27 witness: three pages answered 200, the first two empty and the last
\* with names; three LIST requests were made and run was found in the
\* listing of the third page.
C27_Witness ==
    /\ pc # "start"
    /\ Len(service) = 3 /\ StopAt = 3
    /\ \A k \in 1..3 : service[k].ok /\ ~service[k].raises
    /\ service[1].names = <<>> /\ service[2].names = <<>> /\ service[3].names # <<>>
    /\ Len(Lists) = 3
    /\ selected["run"] = Blob("run", "leaf", 0)

\* --- ties in the ladder

\* steps i and j of the snapshot hold the same value in the column
SameValue(i, j, col) ==
    /\ notna(rs.rows[i][col]) /\ notna(rs.rows[j][col])
    /\ rs.rows[i][col] = rs.rows[j][col]
\* steps i and j hold the same ordinal in every ordinal column of the snapshot
SameOrdinal(i, j) ==
    \A c \in OrdinalCols \cap rs.cols :
        \/ isna(rs.rows[i][c]) /\ isna(rs.rows[j][c])
        \/ SameValue(i, j, c)
\* the steps of run r with the largest value of the column
MaxOf(r, col) ==
    {i \in StepsOf(r) :
        /\ notna(rs.rows[i][col])
        /\ \A j \in StepsOf(r) : notna(rs.rows[j][col]) => rs.rows[j][col] <= rs.rows[i][col]}
\* the steps of run r with the largest ordinal, every step having one
MaxOrdinalOf(r) ==
    {i \in StepsOf(r) : \A j \in StepsOf(r) : OrdinalLeq(rs.rows[j], rs.rows[i])}
Earliest(S) == {i \in S : \A j \in S : i <= j}
Latest(S) == {i \in S : \A j \in S : j <= i}

\* C28: the selected step of a run is the earliest, in the file order of
\* run_step, of its steps with the latest updated_at (rule 1), the earliest
\* of its steps with the largest Sequence (rule 3), and the latest of its
\* steps with the largest ordinal when every step of the run has an
\* ordinal (rule 2); a step with the ordinal of the selected step is never
\* later in the file than the selected step.
C28_TiesByFileOrder ==
    Picked =>
        \A r \in RunsOfRs :
            /\ HasUpdatedAt(r) => SelectedFor(r) = Earliest(MaxOf(r, "updated_at"))
            /\ (~HasUpdatedAt(r) /\ NoOrdinalColumn /\ HasSequence(r))
                  => SelectedFor(r) = Earliest(MaxOf(r, "Sequence"))
            /\ (~HasUpdatedAt(r) /\ ~NoOrdinalColumn)
                  => /\ \A s \in SelectedFor(r) : \A i \in StepsOf(r) :
                            SameOrdinal(i, s) => i <= s
                     /\ (\A i \in StepsOf(r) : HasOrdinal(rs.rows[i]))
                            => SelectedFor(r) = Latest(MaxOrdinalOf(r))

\* C28 witness: a run of three steps; the first two share the latest
\* updated_at, the third has an earlier one; the first is selected.
C28_Witness ==
    /\ Picked
    /\ \E r \in RunsOfRs :
          /\ StepsOf(r) = {1, 2, 3}
          /\ SameValue(1, 2, "updated_at")
          /\ notna(rs.rows[3]["updated_at"])
          /\ rs.rows[3]["updated_at"] < rs.rows[1]["updated_at"]
          /\ SelectedFor(r) = {1}

\* --- the ordinal rule

\* cell x does not sort after cell y, a missing value sorting last
NotAfter(x, y) == isna(y) \/ (notna(x) /\ x <= y)
\* step i does not sort after step j by the ordinal columns of the snapshot,
\* the batch ordinal first
SortsNotAfter(i, j) ==
    LET a == rs.rows[i]
        b == rs.rows[j]
        hasB == "__batch_index" \in rs.cols
        hasF == "__fragment_index" \in rs.cols
    IN IF hasB /\ hasF
       THEN \/ ~NotAfter(b["__batch_index"], a["__batch_index"])
            \/ /\ NotAfter(a["__batch_index"], b["__batch_index"])
               /\ NotAfter(a["__fragment_index"], b["__fragment_index"])
       ELSE IF hasB THEN NotAfter(a["__batch_index"], b["__batch_index"])
       ELSE NotAfter(a["__fragment_index"], b["__fragment_index"])
\* the steps of run r that no step of the run sorts after
SortsLast(r) == {i \in StepsOf(r) : \A j \in StepsOf(r) : SortsNotAfter(j, i)}
\* the ordinal column the sort looks at first
LeadingOrdinal == IF "__batch_index" \in rs.cols THEN "__batch_index" ELSE "__fragment_index"

NumericRunId(row) == row["RunId"] \notin {NULL, GARBLED}
\* the snapshot without the run_step rows whose RunId is missing or not
\* numeric
CleanFiles ==
    [files EXCEPT !["run_step"].rows = SelectSeq(files["run_step"].rows, NumericRunId)]
HasBadRunId ==
    HasCol("run_step", "RunId") /\ FileValues("run_step", "RunId") \cap {NULL, GARBLED} # {}
\* the invocation on the snapshot fs raises, or may raise
WouldRaise(fs) ==
    IF LoadKeyError(fs) \/ LoadTypeError(fs) \/ LoadHazard(fs) THEN TRUE
    ELSE IF "RunId" \notin rs_df(fs).cols THEN TRUE
    ELSE \/ ResolveKeyError(current_step_df(rs_df(fs)), Lookups(fs))
         \/ ResolveHazard(current_step_df(rs_df(fs)), Lookups(fs))
\* the payload of the invocation on the snapshot fs when nothing raises
ResultOf(fs) ==
    Success(Batches(current_location_df(ResolveAll(current_step_df(rs_df(fs)), Lookups(fs))[6])))

\* C30: when every table is located and the snapshot without the run_step
\* rows whose RunId is missing or not numeric is answered with a success,
\* the snapshot with these rows is answered with the same payload: the
\* rows make no record and change no record of another run; every batch_id
\* of a success is a numeric RunId of run_step, 0 only for a RunId 0.
C30_BadRunIdsAreIgnored ==
    (Done /\ AllLocated /\ ~ListRaises(service) /\ HasCol("run_step", "RunId")
          /\ ~WouldRaise(CleanFiles)) =>
        /\ result = ResultOf(CleanFiles)
        /\ BatchIds \subseteq StepRunIds

====
